---- MODULE Spec2Model ----
(***************************************************************************)
(* A model of SIMION/PA.py, the potential-array class PA: its header       *)
(* fields, the point store with the electrode flag folded into the stored  *)
(* value, the checker, the setters, the binary save/load codec, the        *)
(* interpolation and the field-reconstruction scan.                        *)
(*                                                                         *)
(* Conventions.                                                            *)
(*  - A Python value that may be None is a set: {} is None, {v} is v.      *)
(*    Python True/False are 1/0.                                           *)
(*  - Python floats are exact integers here; wherever the source divides,  *)
(*    the inputs of the model are chosen so that the division is exact     *)
(*    (it is exact in binary floating point for the same inputs).          *)
(*  - Spacings dx_mm/dy_mm/dz_mm are counted in units of 1e-6 mm.          *)
(*  - A method is an operator from the instance (a record of the fields    *)
(*    of self) and the arguments to a result [pa, outcome, ret]: the       *)
(*    instance after the call, "ok" or the exception raised, and the       *)
(*    value returned.  An action applies one method to the state.          *)
(*  - Strings that the source matches with a regular expression (the       *)
(*    mirror string, the file path) are sequences of one-character         *)
(*    strings.                                                             *)
(***************************************************************************)
EXTENDS Integers, Sequences, FiniteSets, TLC

VARIABLES
    pa,      \* the PA instance under test: a record of the fields of self
    pre,     \* the instance as it was before the last call
    call,    \* the last call: [op, args, outcome, ret]
    ncalls,  \* number of calls made since construction
    files,   \* the file system: path -> file contents (a record) or None
    fresh,   \* a second instance, produced by PA(file = path), or None
    scan     \* the driver of the field-reconstruction scan, or None

vars == <<pa, pre, call, ncalls, files, fresh, scan>>

-----------------------------------------------------------------------------
(* Python values *)

None == {}
Some(v) == {v}
The(o) == CHOOSE v \in o : TRUE
\* truth value of None, a bool or an int
Truthy(o) == o # None /\ The(o) # 0
\* `not not v`
NotNot(o) == IF Truthy(o) THEN 1 ELSE 0
Bool(b) == IF b THEN 1 ELSE 0

Return(self, ret) == [pa |-> self, outcome |-> "ok", ret |-> ret]
Raise(self, kind) == [pa |-> self, outcome |-> kind, ret |-> None]

-----------------------------------------------------------------------------
(* Program constants *)

DefaultMaxVoltage == 100000
DefaultNx == 3
DefaultNy == 3
DefaultNz == 1
DefaultNg == 100
DefaultDxMm == 1000000
MinDim == 3
MinNz == 1
MaxDim == 90000
MaxPoints == 200000000
MinDxMm == 1
MaxDxMm == 900000000
MaxNgEncoded == 90000
NgBits == 17

\* the attributes of a new instance, before __init__ calls set
\* (the integer and string fields are None in the source; set overwrites
\* every one of them, or load does, before any of them is read)
Blank ==
    [mode |-> 0, symmetry |-> "None", max_voltage |-> 0,
     nx |-> 0, ny |-> 0, nz |-> 0,
     mirror_x |-> None, mirror_y |-> None, mirror_z |-> None,
     field_type |-> "None", ng |-> 0,
     dx_mm |-> 0, dy_mm |-> 0, dz_mm |-> 0,
     enable_points |-> None, fast_adjustable |-> 0,
     error |-> None, pasharp |-> None, points |-> <<>>]

\* the named parameters of __init__, set and check, all omitted
NoArgs ==
    [mode |-> None, symmetry |-> None, max_voltage |-> None,
     nx |-> None, ny |-> None, nz |-> None,
     mirror |-> None, mirror_x |-> None, mirror_y |-> None, mirror_z |-> None,
     field_type |-> None, ng |-> None,
     dx_mm |-> None, dy_mm |-> None, dz_mm |-> None,
     fast_adjustable |-> None, enable_points |-> None, file |-> None]

-----------------------------------------------------------------------------
(* Checkers.  A checker returns [ok, error, exc]: whether it returned a    *)
(* true value, the last-error slot after the call, and "ok" or the         *)
(* exception it raised.                                                    *)

Pass(self) == [ok |-> TRUE, error |-> self.error, exc |-> "ok"]
Fail(msg) == [ok |-> FALSE, error |-> Some(msg), exc |-> "ok"]
Throw(self, kind) == [ok |-> FALSE, error |-> self.error, exc |-> kind]

check_field_type(self, field_type) ==
    IF field_type \notin {"electrostatic", "magnetic"}
    THEN Fail(<<"Field type must be 'electrostatic' or 'magnetic'.", field_type>>)
    ELSE Pass(self)

check_max_voltage(self, max_voltage) ==
    IF max_voltage < 0
    THEN Fail(<<"Max voltage is out of range.", max_voltage>>)
    ELSE Pass(self)

\* re.match('^x?y?z?$', mirror)
MatchXYZ(s) ==
    LET rank(c) == IF c = "x" THEN 1 ELSE IF c = "y" THEN 2 ELSE 3
    IN  /\ \A i \in 1..Len(s) : s[i] \in {"x", "y", "z"}
        /\ \A i \in 1..Len(s), j \in 1..Len(s) : i < j => rank(s[i]) < rank(s[j])

Has(s, c) == \E i \in 1..Len(s) : s[i] = c

check_mirror(self, mirror) ==
    IF ~MatchXYZ(mirror)
    THEN Fail(<<"Mirror string invalid.", mirror>>)
    ELSE Pass(self)

check_mode(self, mode) ==
    IF mode # -1 /\ mode # -2
    THEN Fail(<<"Mode is out of range.", mode>>)
    ELSE Pass(self)

check_ng(self, ng) ==
    IF ng < 0
    THEN Fail(<<"Magnetic scaling factor must be no less than 0.", ng>>)
    ELSE Pass(self)

\* nx, ny and nz arrive as given by the caller: None < 3 raises TypeError
check_nx(self, nx) ==
    IF nx = None THEN Throw(self, "TypeError")
    ELSE IF The(nx) < MinDim THEN Fail(<<"nx value must be no less than 3.", The(nx)>>)
    ELSE IF The(nx) > MaxDim THEN Fail(<<"nx value must be no greater than 90000.", The(nx)>>)
    ELSE Pass(self)

check_ny(self, ny) ==
    IF ny = None THEN Throw(self, "TypeError")
    ELSE IF The(ny) < MinDim THEN Fail(<<"ny value must be no less than 3.", The(ny)>>)
    ELSE IF The(ny) > MaxDim THEN Fail(<<"ny value must be no greater than 90000.", The(ny)>>)
    ELSE Pass(self)

check_nz(self, nz) ==
    IF nz = None THEN Throw(self, "TypeError")
    ELSE IF The(nz) < MinNz THEN Fail(<<"nz value must be no less than 1.", The(nz)>>)
    ELSE IF The(nz) > MaxDim THEN Fail(<<"nz value must be no greater than 90000.", The(nz)>>)
    ELSE Pass(self)

check_size_DimsOnly(self, nx, ny, nz) ==
    IF ~check_nx(self, nx).ok THEN check_nx(self, nx)
    ELSE IF ~check_ny(self, ny).ok THEN check_ny(self, ny)
    ELSE IF ~check_nz(self, nz).ok THEN check_nz(self, nz)
    ELSE Pass(self)

check_size(self, nx, ny, nz) ==
    IF ~check_nx(self, nx).ok THEN check_nx(self, nx)
    ELSE IF ~check_ny(self, ny).ok THEN check_ny(self, ny)
    ELSE IF ~check_nz(self, nz).ok THEN check_nz(self, nz)
    ELSE IF The(nx) * The(ny) * The(nz) > MaxPoints
    THEN Fail(<<"exceeds 200 million points.", The(nx), The(ny), The(nz)>>)
    ELSE Pass(self)

check_symmetry(self, symmetry) ==
    IF symmetry \notin {"planar", "cylindrical"}
    THEN Fail(<<"Symmetry must be 'planar' or 'cylindrical'.", symmetry>>)
    ELSE Pass(self)

check_dx_mm(self, xmmgu) ==
    IF xmmgu < MinDxMm THEN Fail(<<"dx_mm value must be no less than 1e-6.", xmmgu>>)
    ELSE IF xmmgu > MaxDxMm THEN Fail(<<"dx_mm value must be no greater than 900.", xmmgu>>)
    ELSE Pass(self)

check_dy_mm(self, ymmgu) ==
    IF ymmgu < MinDxMm THEN Fail(<<"dy_mm value must be no less than 1e-6.", ymmgu>>)
    ELSE IF ymmgu > MaxDxMm THEN Fail(<<"dy_mm value must be no greater than 900.", ymmgu>>)
    ELSE Pass(self)

check_dz_mm(self, zmmgu) ==
    IF zmmgu < MinDxMm THEN Fail(<<"dz_mm value must be no less than 1e-6.", zmmgu>>)
    ELSE IF zmmgu > MaxDxMm THEN Fail(<<"dz_mm value must be no greater than 900.", zmmgu>>)
    ELSE Pass(self)

\* re.match('^(x?)(y?)(z?)$', mirror): the three groups, or an assertion
_parse_mirror(mirror) ==
    IF ~MatchXYZ(mirror) THEN [exc |-> "AssertionError", x |-> 0, y |-> 0, z |-> 0]
    ELSE [exc |-> "ok", x |-> Bool(Has(mirror, "x")),
          y |-> Bool(Has(mirror, "y")), z |-> Bool(Has(mirror, "z"))]

check_cross_AnyDepth(self, a) ==
    LET aliased == a.mirror # None
        pm == IF aliased THEN _parse_mirror(The(a.mirror))
              ELSE [exc |-> "ok", x |-> 0, y |-> 0, z |-> 0]
        mirror_y == IF aliased THEN Some(pm.y) ELSE a.mirror_y
        mirror_z == IF aliased THEN Some(pm.z) ELSE a.mirror_z
    IN  IF aliased /\ a.mirror_x # None
        THEN Fail(<<"mirror and mirror_x named parameters cannot coexist.">>)
        ELSE IF aliased /\ a.mirror_y # None
        THEN Fail(<<"mirror and mirror_y named parameters cannot coexist.">>)
        ELSE IF aliased /\ a.mirror_z # None
        THEN Fail(<<"mirror and mirror_z named parameters cannot coexist.">>)
        ELSE IF pm.exc # "ok" THEN Throw(self, pm.exc)
        ELSE IF a.symmetry = Some("cylindrical") /\ mirror_y = Some(0)
        THEN Fail(<<"y mirroring must be enabled under cylindrical symmetry.">>)
        ELSE IF Truthy(mirror_z) /\ a.nz = Some(1)
        THEN Fail(<<"nz cannot be 1 under z mirroring.", The(a.nz)>>)
        ELSE Pass(self)

\* the last part of check: the mirror alias and the cross-field rules
check_cross(self, a) ==
    LET aliased == a.mirror # None
        pm == IF aliased THEN _parse_mirror(The(a.mirror))
              ELSE [exc |-> "ok", x |-> 0, y |-> 0, z |-> 0]
        mirror_y == IF aliased THEN Some(pm.y) ELSE a.mirror_y
        mirror_z == IF aliased THEN Some(pm.z) ELSE a.mirror_z
    IN  IF aliased /\ a.mirror_x # None
        THEN Fail(<<"mirror and mirror_x named parameters cannot coexist.">>)
        ELSE IF aliased /\ a.mirror_y # None
        THEN Fail(<<"mirror and mirror_y named parameters cannot coexist.">>)
        ELSE IF aliased /\ a.mirror_z # None
        THEN Fail(<<"mirror and mirror_z named parameters cannot coexist.">>)
        ELSE IF pm.exc # "ok" THEN Throw(self, pm.exc)
        ELSE IF a.symmetry = Some("cylindrical") /\ mirror_y = Some(0)
        THEN Fail(<<"y mirroring must be enabled under cylindrical symmetry.">>)
        ELSE IF a.symmetry = Some("cylindrical") /\ a.nz # Some(1) /\ a.nz # None
        THEN Fail(<<"nz must be 1 under cylindrical symmetry.", The(a.nz)>>)
        ELSE IF Truthy(mirror_z) /\ a.nz = Some(1)
        THEN Fail(<<"nz cannot be 1 under z mirroring.", The(a.nz)>>)
        ELSE Pass(self)

check(self, a) ==
    IF a.mode # None /\ ~check_mode(self, The(a.mode)).ok
    THEN check_mode(self, The(a.mode))
    ELSE IF a.symmetry # None /\ ~check_symmetry(self, The(a.symmetry)).ok
    THEN check_symmetry(self, The(a.symmetry))
    ELSE IF a.max_voltage # None /\ ~check_max_voltage(self, The(a.max_voltage)).ok
    THEN check_max_voltage(self, The(a.max_voltage))
    ELSE IF a.field_type # None /\ ~check_field_type(self, The(a.field_type)).ok
    THEN check_field_type(self, The(a.field_type))
    ELSE IF a.ng # None /\ ~check_ng(self, The(a.ng)).ok
    THEN check_ng(self, The(a.ng))
    ELSE IF a.nx # None /\ ~check_nx(self, a.nx).ok
    THEN check_nx(self, a.nx)
    ELSE IF a.ny # None /\ ~check_ny(self, a.ny).ok
    THEN check_ny(self, a.ny)
    ELSE IF a.nz # None /\ ~check_nz(self, a.nz).ok
    THEN check_nz(self, a.nz)
    ELSE IF a.nx # None /\ ~check_size(self, a.nx, a.ny, a.nz).ok
    THEN check_size(self, a.nx, a.ny, a.nz)
    ELSE IF a.dx_mm # None /\ ~check_dx_mm(self, The(a.dx_mm)).ok
    THEN check_dx_mm(self, The(a.dx_mm))
    ELSE IF a.dy_mm # None /\ ~check_dy_mm(self, The(a.dy_mm)).ok
    THEN check_dy_mm(self, The(a.dy_mm))
    ELSE IF a.dz_mm # None /\ ~check_dz_mm(self, The(a.dz_mm)).ok
    THEN check_dz_mm(self, The(a.dz_mm))
    ELSE check_cross(self, a)

\* `assert checker(...), self.error()`: the slot is written, then the raise
Asserted(self, c) ==
    Raise([self EXCEPT !.error = c.error],
          IF c.exc # "ok" THEN c.exc ELSE "AssertionError")

\* the arguments every setter hands to check: dimensions, symmetry, mirrors
CrossArgs(nx, ny, nz, symmetry, mirror_x, mirror_y, mirror_z) ==
    [NoArgs EXCEPT !.nx = nx, !.ny = ny, !.nz = nz, !.symmetry = symmetry,
                   !.mirror_x = mirror_x, !.mirror_y = mirror_y,
                   !.mirror_z = mirror_z]

-----------------------------------------------------------------------------
(* Files.  A file is [hdr, pts, trl]: the header items, the point values   *)
(* and the statistics trailer, each a sequence of packed numbers; a        *)
(* truncated file is a prefix.  The file system is [data, open, writer]:   *)
(* path -> file or None, the handles that are open, and (history only)     *)
(* the instance whose save wrote each file.                                *)

Zeros(n) == [i \in 1..n |-> 0]

\* a result that also carries the file system after the call
WithFs(r, fs) == [pa |-> r.pa, outcome |-> r.outcome, ret |-> r.ret, fs |-> fs]

\* re.search('#$', path)
EndsWithHash(path) == Len(path) > 0 /\ path[Len(path)] = "#"

mode_get_Stored(self) == self.mode

\* the mode getter: -1 is reported as -2 once a spacing differs from 1
mode_get(self) ==
    IF self.mode = -1 /\ (self.dx_mm # DefaultDxMm \/ self.dy_mm # DefaultDxMm
                          \/ self.dz_mm # DefaultDxMm)
    THEN -2 ELSE self.mode

\* mode(mode): the getter, or the checked setter
PA_mode(self, mode) ==
    IF mode = None THEN Return(self, mode_get(self))
    ELSE IF ~check_mode(self, The(mode)).ok
    THEN Asserted(self, check_mode(self, The(mode)))
    ELSE Return([self EXCEPT !.mode = The(mode)], None)

EncodeMirror_NoFieldType(self) ==
    (IF Truthy(self.mirror_x) THEN 1 ELSE 0)
    + (IF Truthy(self.mirror_y) THEN 2 ELSE 0)
    + (IF Truthy(self.mirror_z) THEN 4 ELSE 0)
    + (IF self.ng >= 1 /\ self.ng <= MaxNgEncoded THEN self.ng * 16 ELSE 0)

EncodeMirror_ShiftBy3(self) ==
    (IF Truthy(self.mirror_x) THEN 1 ELSE 0)
    + (IF Truthy(self.mirror_y) THEN 2 ELSE 0)
    + (IF Truthy(self.mirror_z) THEN 4 ELSE 0)
    + (IF self.field_type = "magnetic" THEN 8 ELSE 0)
    + (IF self.ng >= 1 /\ self.ng <= MaxNgEncoded THEN self.ng * 8 ELSE 0)

\* the raw_mirror word written by save
EncodeMirror(self) ==
    (IF Truthy(self.mirror_x) THEN 1 ELSE 0)
    + (IF Truthy(self.mirror_y) THEN 2 ELSE 0)
    + (IF Truthy(self.mirror_z) THEN 4 ELSE 0)
    + (IF self.field_type = "magnetic" THEN 8 ELSE 0)
    + (IF self.ng >= 1 /\ self.ng <= MaxNgEncoded THEN self.ng * 16 ELSE 0)

\* the fields load takes out of raw_mirror
DecodeMirror(raw_mirror) ==
    [mirror_x |-> raw_mirror % 2,
     mirror_y |-> (raw_mirror \div 2) % 2,
     mirror_z |-> (raw_mirror \div 4) % 2,
     field_type |-> IF (raw_mirror \div 8) % 2 = 1 THEN "magnetic" ELSE "electrostatic",
     ng |-> (raw_mirror \div 16) % (2 ^ NgBits)]

\* The stored values and max_voltage of a paired raw array are counted in
\* halves of a volt, so that a potential of 1.5 is a value.
PerVolt == 2

FirstIdx_Truncated(sharp, num_points, g) ==
    LET M2 == 2 * sharp.max_voltage
        grp(n) == LET fval == sharp.points[n + 1] - M2
                      ival == fval \div PerVolt
                  IN  IF ival >= 1 /\ ival <= 30 THEN ival ELSE 0
        hits == {n \in 0..(num_points - 1) :
                    sharp.points[n + 1] >= M2 /\ grp(n) = g}
    IN  IF hits = {} THEN -1
        ELSE CHOOSE n \in hits : \A m \in hits : n <= m

\* smallest index n (0-based) of the paired raw array that save puts in
\* group g, or -1; ival is int(fval) for fval >= 0
FirstIdx(sharp, num_points, g) ==
    LET M2 == 2 * sharp.max_voltage
        grp(n) == LET fval == sharp.points[n + 1] - M2
                      ival == fval \div PerVolt
                  IN  IF ival * PerVolt = fval /\ ival >= 1 /\ ival <= 30
                      THEN ival ELSE 0
        hits == {n \in 0..(num_points - 1) :
                    sharp.points[n + 1] >= M2 /\ grp(n) = g}
    IN  IF hits = {} THEN -1
        ELSE CHOOSE n \in hits : \A m \in hits : n <= m

Trailer(sharp, num_points) ==
    LET first_idx == [g \in 0..30 |-> FirstIdx(sharp, num_points, g)]
        num_electrodes == Cardinality({g \in 0..30 : first_idx[g] # -1})
    IN  <<num_electrodes, 10000>> \o [i \in 1..31 |-> first_idx[i - 1]] \o <<-1>>

\* save(path): fsys is the file system before the call; the result carries
\* the file system after it
save(self, fsys, path) ==
    IF self.mirror_x = None \/ self.mirror_y = None \/ self.mirror_z = None
    THEN \* `self._mirror_x &= 0x1` on None, before the file is opened
         WithFs(Raise(self, "TypeError"), fsys)
    ELSE
    LET norm == [self EXCEPT !.mirror_x = Some(The(self.mirror_x) % 2),
                             !.mirror_y = Some(The(self.mirror_y) % 2),
                             !.mirror_z = Some(The(self.mirror_z) % 2)]
        symmetry == IF norm.symmetry = "planar" THEN 1 ELSE 0
        hdr == <<mode_get(norm), symmetry, norm.max_voltage,
                 norm.nx, norm.ny, norm.nz, EncodeMirror(norm)>>
               \o (IF mode_get(norm) <= -2
                   THEN <<norm.dx_mm, norm.dy_mm, norm.dz_mm>> ELSE <<>>)
        num_points == Len(norm.points)
        body == [hdr |-> hdr, pts |-> norm.points, trl |-> <<>>]
        sharp == The(norm.pasharp)
        written(f) == [fsys EXCEPT !.data[path] = Some(f),
                                   !.writer[path] = Some(norm)]
    IN  IF path \notin fsys.writable
        THEN \* open fails with IOError; the handler reads f, never bound
             WithFs(Raise(norm, "UnboundLocalError"), fsys)
        ELSE IF norm.pasharp = None
        THEN WithFs(Return(norm, None), written(body))
        ELSE IF ~(sharp.nx = norm.nx /\ sharp.ny = norm.ny /\ sharp.nz = norm.nz)
        THEN \* the assert is not an IOError: the handle stays open
             WithFs(Raise(norm, "AssertionError"),
                    [written(body) EXCEPT !.open = @ \cup {path}])
        ELSE WithFs(Return(norm, None),
                    written([body EXCEPT !.trl = Trailer(sharp, num_points)]))

\* rows of nx values read from the point section; a short row stops the
\* loop with struct.error, after the rows before it were stored
RowsRead(f, nx, num_points) ==
    IF nx <= 0 THEN 0
    ELSE LET full == Len(f.pts) \div nx
             want == (num_points + nx - 1) \div nx
         IN  IF full < want THEN full ELSE want

\* load(path)
load(self, fsys, path) ==
    LET f == The(fsys.data[path])
        h == f.hdr
        mode == h[1]
        hlen == IF mode <= -2 THEN 10 ELSE 7
        m == DecodeMirror(h[7])
        num_points == h[4] * h[5] * h[6]
        rows == RowsRead(f, h[4], num_points)
        header ==
            [self EXCEPT !.mode = mode,
                         !.symmetry = IF h[2] # 0 THEN "planar" ELSE "cylindrical",
                         !.max_voltage = h[3],
                         !.nx = h[4], !.ny = h[5], !.nz = h[6],
                         !.mirror_x = Some(m.mirror_x),
                         !.mirror_y = Some(m.mirror_y),
                         !.mirror_z = Some(m.mirror_z),
                         !.field_type = m.field_type,
                         !.ng = m.ng,
                         !.dx_mm = IF mode <= -2 THEN h[8] ELSE DefaultDxMm,
                         !.dy_mm = IF mode <= -2 THEN h[9] ELSE DefaultDxMm,
                         !.dz_mm = IF mode <= -2 THEN h[10] ELSE DefaultDxMm,
                         !.fast_adjustable = Bool(EndsWithHash(path))]
        stored == [n \in 1..(IF num_points > 0 THEN num_points ELSE 0) |->
                      IF n <= rows * h[4] THEN f.pts[n] ELSE 0]
        leaked == [fsys EXCEPT !.open = @ \cup {path}]
    IN  IF fsys.data[path] = None
        THEN WithFs(Raise(self, "PAError"), fsys)
        ELSE IF Len(h) < 1 THEN WithFs(Raise(self, "PAError"), fsys)
        ELSE IF mode # -1 /\ mode # -2 THEN WithFs(Raise(self, "PAError"), fsys)
        ELSE IF Len(h) < hlen THEN WithFs(Raise(self, "PAError"), fsys)
        ELSE IF h[4] = 0 \/ (h[4] < 0 /\ num_points < 0)
        THEN \* range(0, num_points, 0), or f.read of a negative size
             WithFs(Raise([header EXCEPT !.points = stored], "ValueError"), leaked)
        ELSE IF num_points > 0 /\ rows * h[4] < num_points
        THEN \* struct.unpack of a short row: neither PAError nor IOError
             WithFs(Raise([header EXCEPT !.points = stored], "struct.error"), leaked)
        ELSE WithFs(Return([header EXCEPT !.points = stored], None), fsys)

-----------------------------------------------------------------------------
(* Header getters and setters *)

inside(self, x, y, z) ==
    x >= 0 /\ x < self.nx /\ y >= 0 /\ y < self.ny /\ z >= 0 /\ z < self.nz

\* index of (x,y,z) in the point list (0-based, as in the source)
Pos(self, x, y, z) == (z * self.ny + y) * self.nx + x

num_points(self) == self.nx * self.ny * self.nz

PA_max_voltage_KeepsRaw(self, max_voltage) ==
    IF max_voltage = None THEN Return(self, self.max_voltage)
    ELSE IF ~check_max_voltage(self, The(max_voltage)).ok
    THEN Asserted(self, check_max_voltage(self, The(max_voltage)))
    ELSE Return([self EXCEPT !.max_voltage = The(max_voltage)], None)

\* max_voltage(max_voltage): the setter moves every value above the old
\* threshold by twice the change
PA_max_voltage(self, max_voltage) ==
    IF max_voltage = None THEN Return(self, self.max_voltage)
    ELSE IF ~check_max_voltage(self, The(max_voltage)).ok
    THEN Asserted(self, check_max_voltage(self, The(max_voltage)))
    ELSE
    LET old_max_voltage == self.max_voltage
        diff == -2 * self.max_voltage + 2 * The(max_voltage)
        n_pts == num_points(self)
        done == IF n_pts <= Len(self.points) THEN n_pts ELSE Len(self.points)
        moved == [n \in 1..Len(self.points) |->
                    IF n <= done /\ self.points[n] > old_max_voltage
                    THEN self.points[n] + diff ELSE self.points[n]]
        after == [self EXCEPT !.max_voltage = The(max_voltage), !.points = moved]
    IN  IF n_pts > Len(self.points) THEN Raise(after, "IndexError")
        ELSE Return(after, None)

PA_field_type(self, field_type) ==
    IF field_type = None THEN Return(self, self.field_type)
    ELSE IF ~check_field_type(self, The(field_type)).ok
    THEN Asserted(self, check_field_type(self, The(field_type)))
    ELSE Return([self EXCEPT !.field_type = The(field_type)], None)

PA_ng(self, ng) ==
    IF ng = None THEN Return(self, self.ng)
    ELSE IF ~check_ng(self, The(ng)).ok
    THEN Asserted(self, check_ng(self, The(ng)))
    ELSE Return([self EXCEPT !.ng = The(ng)], None)

PA_fast_adjustable(self, fast_adjustable) ==
    IF fast_adjustable = None THEN Return(self, self.fast_adjustable)
    ELSE Return([self EXCEPT !.fast_adjustable = NotNot(fast_adjustable)], None)

\* pasharp(pasharp): the getter, or the unchecked setter
PA_pasharp(self, pasharp) ==
    IF pasharp = None THEN Return(self, self.pasharp)
    ELSE Return([self EXCEPT !.pasharp = pasharp], None)

PA_dx_mm(self, value) ==
    IF value = None THEN Return(self, self.dx_mm)
    ELSE IF ~check_dx_mm(self, The(value)).ok
    THEN Asserted(self, check_dx_mm(self, The(value)))
    ELSE Return([self EXCEPT !.dx_mm = The(value)], None)

PA_dy_mm(self, value) ==
    IF value = None THEN Return(self, self.dy_mm)
    ELSE IF ~check_dy_mm(self, The(value)).ok
    THEN Asserted(self, check_dy_mm(self, The(value)))
    ELSE Return([self EXCEPT !.dy_mm = The(value)], None)

PA_dz_mm(self, value) ==
    IF value = None THEN Return(self, self.dz_mm)
    ELSE IF ~check_dz_mm(self, The(value)).ok
    THEN Asserted(self, check_dz_mm(self, The(value)))
    ELSE Return([self EXCEPT !.dz_mm = The(value)], None)

\* the mirror string the getter builds
MirrorString(mirror_x, mirror_y, mirror_z) ==
    (IF Truthy(mirror_x) THEN <<"x">> ELSE <<>>)
    \o (IF Truthy(mirror_y) THEN <<"y">> ELSE <<>>)
    \o (IF Truthy(mirror_z) THEN <<"z">> ELSE <<>>)

\* mirror(mirror): the setter matches the string and stores the three
\* flags; it calls no checker
PA_mirror(self, mirror) ==
    IF mirror = None
    THEN Return(self, MirrorString(self.mirror_x, self.mirror_y, self.mirror_z))
    ELSE IF ~MatchXYZ(The(mirror)) THEN Raise(self, "AssertionError")
    ELSE Return([self EXCEPT !.mirror_x = Some(Bool(Has(The(mirror), "x"))),
                             !.mirror_y = Some(Bool(Has(The(mirror), "y"))),
                             !.mirror_z = Some(Bool(Has(The(mirror), "z")))], None)

PA_mirror_x(self, mirror_x) ==
    IF mirror_x = None THEN Return(self, self.mirror_x)
    ELSE Return([self EXCEPT !.mirror_x = Some(NotNot(mirror_x))], None)

PA_mirror_y(self, mirror_y) ==
    LET c == check(self, CrossArgs(Some(self.nx), Some(self.ny), Some(self.nz),
                                   Some(self.symmetry), self.mirror_x,
                                   mirror_y, self.mirror_z))
    IN  IF mirror_y = None THEN Return(self, self.mirror_y)
        ELSE IF ~c.ok THEN Asserted(self, c)
        ELSE Return([self EXCEPT !.mirror_y = Some(NotNot(mirror_y))], None)

PA_mirror_z(self, mirror_z) ==
    LET c == check(self, CrossArgs(Some(self.nx), Some(self.ny), Some(self.nz),
                                   Some(self.symmetry), self.mirror_x,
                                   self.mirror_y, mirror_z))
    IN  IF mirror_z = None THEN Return(self, self.mirror_z)
        ELSE IF ~c.ok THEN Asserted(self, c)
        ELSE Return([self EXCEPT !.mirror_z = Some(NotNot(mirror_z))], None)

PA_symmetry(self, symmetry) ==
    LET c == check(self, CrossArgs(Some(self.nx), Some(self.ny), Some(self.nz),
                                   symmetry, self.mirror_x,
                                   self.mirror_y, self.mirror_z))
    IN  IF symmetry = None THEN Return(self, self.symmetry)
        ELSE IF ~c.ok THEN Asserted(self, c)
        ELSE Return([self EXCEPT !.symmetry = The(symmetry)], None)

\* size(nx, ny, nz): the getter, or the resize, which allocates a new
\* zeroed point list
size(self, nx, ny, nz) ==
    LET nz1 == IF nz = None THEN Some(1) ELSE nz
        c == check(self, CrossArgs(nx, ny, nz1, Some(self.symmetry),
                                   self.mirror_x, self.mirror_y, self.mirror_z))
    IN  IF nx = None THEN Return(self, <<self.nx, self.ny, self.nz>>)
        ELSE IF ~c.ok THEN Asserted(self, c)
        ELSE Return([self EXCEPT !.nx = The(nx), !.ny = The(ny), !.nz = The(nz1),
                                 !.points = Zeros(The(nx) * The(ny) * The(nz1))],
                    None)

PA_nx(self, nx) ==
    LET c == check(self, CrossArgs(nx, Some(self.ny), Some(self.nz),
                                   Some(self.symmetry), self.mirror_x,
                                   self.mirror_y, self.mirror_z))
    IN  IF nx = None THEN Return(self, self.nx)
        ELSE IF ~c.ok THEN Asserted(self, c)
        ELSE size(self, nx, Some(self.ny), Some(self.nz))

PA_ny(self, ny) ==
    LET c == check(self, CrossArgs(Some(self.nx), ny, Some(self.nz),
                                   Some(self.symmetry), self.mirror_x,
                                   self.mirror_y, self.mirror_z))
    IN  IF ny = None THEN Return(self, self.ny)
        ELSE IF ~c.ok THEN Asserted(self, c)
        ELSE size(self, Some(self.nx), ny, Some(self.nz))

PA_nz(self, nz) ==
    LET c == check(self, CrossArgs(Some(self.nx), Some(self.ny), nz,
                                   Some(self.symmetry), self.mirror_x,
                                   self.mirror_y, self.mirror_z))
    IN  IF nz = None THEN Return(self, self.nz)
        ELSE IF ~c.ok THEN Asserted(self, c)
        ELSE size(self, Some(self.nx), Some(self.ny), nz)

SetResizes_Always(self, nx, ny, nz) == TRUE

\* whether set, having passed its checks, calls size
SetResizes(self, nx, ny, nz) ==
    nx # self.nx \/ ny # self.ny \/ nz # self.nz

\* set(...) without file: aliases, defaults, every check, then the
\* assignments, then the resize
set_attrs(self, a) ==
    LET aliased == a.mirror # None
        pm == IF aliased THEN _parse_mirror(The(a.mirror))
              ELSE [exc |-> "ok", x |-> 0, y |-> 0, z |-> 0]
        mx0 == IF aliased THEN Some(pm.x) ELSE a.mirror_x
        my0 == IF aliased THEN Some(pm.y) ELSE a.mirror_y
        mz0 == IF aliased THEN Some(pm.z) ELSE a.mirror_z
        my1 == IF a.symmetry = Some("cylindrical") /\ my0 = None THEN Some(1) ELSE my0
        c_mode == IF a.mode = None THEN Pass(self) ELSE check_mode(self, The(a.mode))
        c_max == IF a.max_voltage = None THEN Pass(self)
                 ELSE check_max_voltage(self, The(a.max_voltage))
        c_ft == IF a.field_type = None THEN Pass(self)
                ELSE check_field_type(self, The(a.field_type))
        c_ng == IF a.ng = None THEN Pass(self) ELSE check_ng(self, The(a.ng))
        c_sym == IF a.symmetry = None THEN Pass(self)
                 ELSE check_symmetry(self, The(a.symmetry))
        c_dx == IF a.dx_mm = None THEN Pass(self) ELSE check_dx_mm(self, The(a.dx_mm))
        c_dy == IF a.dy_mm = None THEN Pass(self) ELSE check_dy_mm(self, The(a.dy_mm))
        c_dz == IF a.dz_mm = None THEN Pass(self) ELSE check_dz_mm(self, The(a.dz_mm))
        mirror_x == IF mx0 = None THEN self.mirror_x ELSE mx0
        mirror_y == IF my1 = None THEN self.mirror_y ELSE my1
        mirror_z == IF mz0 = None THEN self.mirror_z ELSE mz0
        c_mir == IF mx0 # None \/ my1 # None \/ mz0 # None
                 THEN check_mirror(self, MirrorString(mirror_x, mirror_y, mirror_z))
                 ELSE Pass(self)
        nx == IF a.nx = None THEN Some(self.nx) ELSE a.nx
        ny == IF a.ny = None THEN Some(self.ny) ELSE a.ny
        nz == IF a.nz = None THEN Some(self.nz) ELSE a.nz
        c_size == IF a.nx # None \/ a.ny # None \/ a.nz # None
                  THEN check_size(self, nx, ny, nz) ELSE Pass(self)
        symmetry == IF a.symmetry = None THEN Some(self.symmetry) ELSE a.symmetry
        c_all == check(self, CrossArgs(nx, ny, nz, symmetry,
                                       mirror_x, mirror_y, mirror_z))
        assigned ==
            [self EXCEPT
                !.mode = IF a.mode # None THEN The(a.mode) ELSE @,
                !.max_voltage = IF a.max_voltage # None THEN The(a.max_voltage) ELSE @,
                !.field_type = IF a.field_type # None THEN The(a.field_type) ELSE @,
                !.ng = IF a.ng # None THEN The(a.ng) ELSE @,
                !.fast_adjustable =
                    IF a.fast_adjustable # None THEN NotNot(a.fast_adjustable) ELSE @,
                !.enable_points =
                    IF a.enable_points # None THEN Some(NotNot(a.enable_points)) ELSE @,
                !.symmetry = The(symmetry),
                !.mirror_x = mirror_x,
                !.mirror_y = mirror_y,
                !.mirror_z = mirror_z,
                !.dx_mm = IF a.dx_mm # None THEN The(a.dx_mm) ELSE @,
                !.dy_mm = IF a.dy_mm # None THEN The(a.dy_mm) ELSE @,
                !.dz_mm = IF a.dz_mm # None THEN The(a.dz_mm) ELSE @]
    IN  IF aliased /\ (a.mirror_x # None \/ a.mirror_y # None \/ a.mirror_z # None)
        THEN Raise(self, "AssertionError")
        ELSE IF pm.exc # "ok" THEN Raise(self, pm.exc)
        ELSE IF ~c_mode.ok THEN Asserted(self, c_mode)
        ELSE IF ~c_max.ok THEN Asserted(self, c_max)
        ELSE IF ~c_ft.ok THEN Asserted(self, c_ft)
        ELSE IF ~c_ng.ok THEN Asserted(self, c_ng)
        ELSE IF ~c_sym.ok THEN Asserted(self, c_sym)
        ELSE IF ~c_dx.ok THEN Asserted(self, c_dx)
        ELSE IF ~c_dy.ok THEN Asserted(self, c_dy)
        ELSE IF ~c_dz.ok THEN Asserted(self, c_dz)
        ELSE IF ~c_mir.ok THEN Asserted(self, c_mir)
        ELSE IF ~c_size.ok THEN Asserted(self, c_size)
        ELSE IF ~c_all.ok THEN Asserted(self, c_all)
        ELSE IF SetResizes(self, The(nx), The(ny), The(nz))
        THEN size(assigned, nx, ny, nz)
        ELSE Return(assigned, None)

\* set(...), with the file system: file = path loads instead
set(self, fsys, a) ==
    IF a.file # None
    THEN IF [a EXCEPT !.file = None] # NoArgs
         THEN WithFs(Raise(self, "AssertionError"), fsys)
         ELSE load(self, fsys, The(a.file))
    ELSE WithFs(set_attrs(self, a), fsys)

\* PA(...): the defaults of __init__, then set on the new instance
PA_init(fsys, a) ==
    LET dflt(o, v) == IF o = None THEN Some(v) ELSE o
        symmetry == dflt(a.symmetry, "planar")
        d == [a EXCEPT !.mode = dflt(@, -1),
                       !.symmetry = symmetry,
                       !.max_voltage = dflt(@, DefaultMaxVoltage),
                       !.nx = dflt(@, DefaultNx),
                       !.ny = dflt(@, DefaultNy),
                       !.nz = dflt(@, DefaultNz),
                       !.field_type = dflt(@, "electrostatic"),
                       !.ng = dflt(@, DefaultNg),
                       !.dx_mm = dflt(@, DefaultDxMm),
                       !.dy_mm = dflt(@, DefaultDxMm),
                       !.dz_mm = dflt(@, DefaultDxMm),
                       !.fast_adjustable = dflt(@, 0),
                       !.enable_points = dflt(@, 1)]
        nomirror == a.mirror = None /\ a.mirror_x = None
                    /\ a.mirror_y = None /\ a.mirror_z = None
        dm == IF nomirror
              THEN [d EXCEPT !.mirror_x = Some(0),
                             !.mirror_y = Some(Bool(symmetry = Some("cylindrical"))),
                             !.mirror_z = Some(0)]
              ELSE d
    IN  IF a.file = None THEN set(Blank, fsys, dm) ELSE set(Blank, fsys, a)

-----------------------------------------------------------------------------
(* Point accessors *)

\* self._points[pos] with one value replaced (pos 0-based)
Store(self, pos, val) == [self EXCEPT !.points[pos + 1] = val]

clear_points(self) ==
    Return([self EXCEPT !.points =
                [n \in 1..Len(self.points) |->
                    IF n <= num_points(self) THEN 0 ELSE self.points[n]]], None)

electrode_HalfOffset(self, x, y, z, is_electrode) ==
    LET pos == Pos(self, x, y, z)
        val == self.points[pos + 1]
    IN  IF ~inside(self, x, y, z) THEN Raise(self, "AssertionError")
        ELSE IF is_electrode = None THEN Return(self, Bool(val > self.max_voltage))
        ELSE IF val > self.max_voltage
        THEN IF ~Truthy(is_electrode)
             THEN Return(Store(self, pos, val - self.max_voltage), None)
             ELSE Return(self, None)
        ELSE IF Truthy(is_electrode)
             THEN Return(Store(self, pos, val + self.max_voltage), None)
             ELSE Return(self, None)

electrode(self, x, y, z, is_electrode) ==
    LET pos == Pos(self, x, y, z)
        val == self.points[pos + 1]
    IN  IF ~inside(self, x, y, z) THEN Raise(self, "AssertionError")
        ELSE IF is_electrode = None THEN Return(self, Bool(val > self.max_voltage))
        ELSE IF val > self.max_voltage
        THEN IF ~Truthy(is_electrode)
             THEN Return(Store(self, pos, val - 2 * self.max_voltage), None)
             ELSE Return(self, None)
        ELSE IF Truthy(is_electrode)
             THEN Return(Store(self, pos, val + 2 * self.max_voltage), None)
             ELSE Return(self, None)

WritePoint_RaiseToValue(self, pos, is_electrode, val) ==
    LET raised == IF val > self.max_voltage
                  THEN PA_max_voltage(self, Some(val))
                  ELSE Return(self, None)
        s == raised.pa
    IN  IF raised.outcome # "ok" THEN raised
        ELSE Return(Store(s, pos, IF is_electrode THEN val + 2 * s.max_voltage
                                  ELSE val), None)

\* the write shared by point and potential: raise max_voltage if the
\* potential exceeds it, store the potential, add the electrode offset
WritePoint_NoRaise(self, pos, is_electrode, val) ==
    Return(Store(self, pos, IF is_electrode THEN val + 2 * self.max_voltage
                            ELSE val), None)

WritePoint(self, pos, is_electrode, val) ==
    LET raised == IF val > self.max_voltage
                  THEN PA_max_voltage(self, Some(val * 2))
                  ELSE Return(self, None)
        s == raised.pa
    IN  IF raised.outcome # "ok" THEN raised
        ELSE Return(Store(s, pos, IF is_electrode THEN val + 2 * s.max_voltage
                                  ELSE val), None)

point_StaleOffset(self, x, y, z, is_electrode, potential) ==
    LET pos == Pos(self, x, y, z)
        val == self.points[pos + 1]
        flag == val > self.max_voltage
        given == IF potential = None THEN 0 ELSE The(potential)
        written == WritePoint(self, pos, FALSE, given)
    IN  IF ~inside(self, x, y, z) THEN Raise(self, "AssertionError")
        ELSE IF is_electrode = None
        THEN Return(self, <<Bool(flag),
                            IF flag THEN val - 2 * self.max_voltage ELSE val>>)
        ELSE IF written.outcome = "ok" /\ Truthy(is_electrode)
        THEN Return(Store(written.pa, pos, given + 2 * self.max_voltage), None)
        ELSE written

point(self, x, y, z, is_electrode, potential) ==
    LET pos == Pos(self, x, y, z)
        val == self.points[pos + 1]
        flag == val > self.max_voltage
        given == IF potential = None THEN 0 ELSE The(potential)
    IN  IF ~inside(self, x, y, z) THEN Raise(self, "AssertionError")
        ELSE IF is_electrode = None
        THEN Return(self, <<Bool(flag),
                            IF flag THEN val - 2 * self.max_voltage ELSE val>>)
        ELSE WritePoint(self, pos, Truthy(is_electrode), given)

PA_potential(self, x, y, z, potential) ==
    LET pos == Pos(self, x, y, z)
        val == self.points[pos + 1]
        is_electrode == val > self.max_voltage
    IN  IF ~inside(self, x, y, z) THEN Raise(self, "AssertionError")
        ELSE IF potential = None
        THEN Return(self, IF is_electrode THEN val - 2 * self.max_voltage ELSE val)
        ELSE WritePoint(self, pos, is_electrode, The(potential))

raw(self, x, y, z, val) ==
    LET pos == Pos(self, x, y, z)
    IN  IF ~inside(self, x, y, z) THEN Raise(self, "AssertionError")
        ELSE IF val = None THEN Return(self, self.points[pos + 1])
        ELSE Return(Store(self, pos, The(val)), None)

voxel_inside(self, x, y, z) ==
    /\ x >= 0 /\ x + 1 < self.nx /\ y >= 0 /\ y + 1 < self.ny
    /\ IF self.nz = 1 THEN z = 0 ELSE z >= 0 /\ z + 1 < self.nz

\* the corners of voxel (x,y,z), in the order solid visits them
Corners(self, x, y, z) ==
    IF self.nz = 1
    THEN <<<<x, y, z>>, <<x + 1, y, z>>, <<x, y + 1, z>>, <<x + 1, y + 1, z>>>>
    ELSE <<<<x, y, z>>, <<x + 1, y, z>>, <<x, y + 1, z>>, <<x + 1, y + 1, z>>,
           <<x, y, z + 1>>, <<x + 1, y, z + 1>>, <<x, y + 1, z + 1>>,
           <<x + 1, y + 1, z + 1>>>>

\* electrode(c, is_electrode) over the first k corners, in order
RECURSIVE SetCorners(_, _, _, _)
SetCorners(self, cs, k, is_electrode) ==
    IF k = 0 THEN Return(self, None)
    ELSE LET before == SetCorners(self, cs, k - 1, is_electrode)
         IN  IF before.outcome # "ok" THEN before
             ELSE electrode(before.pa, cs[k][1], cs[k][2], cs[k][3], is_electrode)

solid(self, x, y, z, is_electrode) ==
    LET cs == Corners(self, x, y, z)
    IN  IF ~voxel_inside(self, x, y, z) THEN Raise(self, "AssertionError")
        ELSE IF is_electrode = None
        THEN Return(self, Bool(\A k \in 1..Len(cs) :
                        electrode(self, cs[k][1], cs[k][2], cs[k][3], None).ret = 1))
        ELSE SetCorners(self, cs, Len(cs), is_electrode)

-----------------------------------------------------------------------------
(* Real coordinates.  A real coordinate is given in half grid units (x2 is *)
(* twice x), which covers the grid points, the midpoints between them and  *)
(* the +-0.5 samples of field_real.  potential_real returns 8 times the    *)
(* interpolated potential and field_real 8 times each field component, so  *)
(* that the weights 1/2, 1/4 and 1/8 stay integers.                        *)

Abs(n) == IF n < 0 THEN -n ELSE n

\* sqrt of a perfect square
Sqrt(n) == CHOOSE r \in 0..n : r * r = n
IsSquare(n) == \E r \in 0..n : r * r = n

_inside_cylindrical_real(self, x2, r2) ==
    /\ IF x2 >= 0 THEN x2 <= 2 * (self.nx - 1)
       ELSE Truthy(self.mirror_x) /\ -x2 <= 2 * (self.nx - 1)
    /\ r2 <= 2 * (self.ny - 1)

inside_real_Open(self, x2, y2, z2) ==
    IF self.symmetry = "planar"
    THEN /\ IF x2 >= 0 THEN x2 < 2 * (self.nx - 1)
            ELSE Truthy(self.mirror_x) /\ -x2 < 2 * (self.nx - 1)
         /\ IF y2 >= 0 THEN y2 < 2 * (self.ny - 1)
            ELSE Truthy(self.mirror_y) /\ -y2 < 2 * (self.ny - 1)
         /\ \/ self.nz = 1
            \/ IF z2 >= 0 THEN z2 < 2 * (self.nz - 1)
               ELSE Truthy(self.mirror_z) /\ -z2 < 2 * (self.nz - 1)
    ELSE _inside_cylindrical_real(self, x2, Sqrt(y2 * y2 + z2 * z2))

inside_real_FiniteDepth(self, x2, y2, z2) ==
    IF self.symmetry = "planar"
    THEN /\ IF x2 >= 0 THEN x2 <= 2 * (self.nx - 1)
            ELSE Truthy(self.mirror_x) /\ -x2 <= 2 * (self.nx - 1)
         /\ IF y2 >= 0 THEN y2 <= 2 * (self.ny - 1)
            ELSE Truthy(self.mirror_y) /\ -y2 <= 2 * (self.ny - 1)
         /\ IF z2 >= 0 THEN z2 <= 2 * (self.nz - 1)
            ELSE Truthy(self.mirror_z) /\ -z2 <= 2 * (self.nz - 1)
    ELSE _inside_cylindrical_real(self, x2, Sqrt(y2 * y2 + z2 * z2))

inside_real_UpToDim(self, x2, y2, z2) ==
    IF self.symmetry = "planar"
    THEN /\ IF x2 >= 0 THEN x2 < 2 * self.nx
            ELSE Truthy(self.mirror_x) /\ -x2 < 2 * self.nx
         /\ IF y2 >= 0 THEN y2 < 2 * self.ny
            ELSE Truthy(self.mirror_y) /\ -y2 < 2 * self.ny
         /\ \/ self.nz = 1
            \/ IF z2 >= 0 THEN z2 < 2 * self.nz
               ELSE Truthy(self.mirror_z) /\ -z2 < 2 * self.nz
    ELSE _inside_cylindrical_real(self, x2, Sqrt(y2 * y2 + z2 * z2))

inside_real(self, x2, y2, z2) ==
    IF self.symmetry = "planar"
    THEN /\ IF x2 >= 0 THEN x2 <= 2 * (self.nx - 1)
            ELSE Truthy(self.mirror_x) /\ -x2 <= 2 * (self.nx - 1)
         /\ IF y2 >= 0 THEN y2 <= 2 * (self.ny - 1)
            ELSE Truthy(self.mirror_y) /\ -y2 <= 2 * (self.ny - 1)
         /\ \/ self.nz = 1
            \/ IF z2 >= 0 THEN z2 <= 2 * (self.nz - 1)
               ELSE Truthy(self.mirror_z) /\ -z2 <= 2 * (self.nz - 1)
    ELSE _inside_cylindrical_real(self, x2, Sqrt(y2 * y2 + z2 * z2))

Corner_Unguarded(w, used, x, y, z) ==
    [w |-> w, used |-> TRUE, x |-> x, y |-> y, z |-> z]

\* one corner of the interpolation: its weight (in halves per axis) and
\* its grid point; `used` is the source's test that guards the read
Corner(w, used, x, y, z) == [w |-> w, used |-> used, x |-> x, y |-> y, z |-> z]

\* the corners potential_real combines
RealCorners(self, x2, y2, z2) ==
    LET xeff == Abs(x2)
        yeff == IF self.symmetry = "planar" THEN Abs(y2)
                ELSE Sqrt(y2 * y2 + z2 * z2)
        zeff == Abs(z2)
        xi == xeff \div 2
        yi == yeff \div 2
        zi == zeff \div 2
        wx == xeff - 2 * xi
        wy == yeff - 2 * yi
        wz == zeff - 2 * zi
    IN  IF self.symmetry = "planar" /\ self.nz # 1
        THEN <<Corner((2 - wx) * (2 - wy) * (2 - wz), TRUE, xi, yi, zi),
               Corner(wx * (2 - wy) * (2 - wz), wx # 0, xi + 1, yi, zi),
               Corner((2 - wx) * wy * (2 - wz), wy # 0, xi, yi + 1, zi),
               Corner(wx * wy * (2 - wz), wx # 0 /\ wy # 0, xi + 1, yi + 1, zi),
               Corner((2 - wx) * (2 - wy) * wz, wz # 0, xi, yi, zi + 1),
               Corner(wx * (2 - wy) * wz, wx # 0 /\ wz # 0, xi + 1, yi, zi + 1),
               Corner((2 - wx) * wy * wz, wy # 0 /\ wz # 0, xi, yi + 1, zi + 1),
               Corner(wx * wy * wz, wx # 0 /\ wy # 0 /\ wz # 0,
                      xi + 1, yi + 1, zi + 1)>>
        ELSE <<Corner(2 * (2 - wx) * (2 - wy), TRUE, xi, yi, 0),
               Corner(2 * wx * (2 - wy), wx # 0, xi + 1, yi, 0),
               Corner(2 * (2 - wx) * wy, wy # 0, xi, yi + 1, 0),
               Corner(2 * wx * wy, wx # 0 /\ wy # 0, xi + 1, yi + 1, 0)>>

RECURSIVE Sum(_)
Sum(seq) == IF seq = <<>> THEN 0 ELSE Head(seq) + Sum(Tail(seq))

potential_real(self, x2, y2, z2) ==
    LET cs == RealCorners(self, x2, y2, z2)
        term(c) == IF c.used
                   THEN c.w * PA_potential(self, c.x, c.y, c.z, None).ret
                   ELSE 0
    IN  IF ~inside_real(self, x2, y2, z2) THEN Raise(self, "AssertionError")
        ELSE IF \E k \in 1..Len(cs) :
                    cs[k].used /\ ~inside(self, cs[k].x, cs[k].y, cs[k].z)
        THEN Raise(self, "AssertionError")
        ELSE Return(self, Sum([k \in 1..Len(cs) |-> term(cs[k])]))

Max(a, b) == IF a > b THEN a ELSE b
Min(a, b) == IF a < b THEN a ELSE b

\* the sample positions of field_real at a grid point (x,y,z): +-0.5 in
\* each direction, clamped to the array
Clamps(self, x, y, z) ==
    LET cyl == self.symmetry = "cylindrical"
        r == Sqrt(y * y + z * z)
        min_x == IF Truthy(self.mirror_x) THEN -2 * (self.nx - 1) ELSE 0
        min_y == IF cyl THEN -2 * (self.ny - 1)
                 ELSE IF Truthy(self.mirror_y) THEN -2 * (self.ny - 1) ELSE 0
        min_z == IF Truthy(self.mirror_z) THEN -2 * (self.nz - 1) ELSE 0
        yy == IF cyl THEN r ELSE y
        zz == IF cyl THEN 0 ELSE z
    IN  [r |-> r, yy |-> yy, zz |-> zz,
         xm |-> Max(2 * x - 1, min_x),
         xp |-> Min(2 * x + 1, 2 * (self.nx - 1)),
         ym |-> Max(2 * yy - 1, min_y),
         yp |-> Min(2 * yy + 1, 2 * (self.ny - 1)),
         zm |-> Max(2 * z - 1, min_z),
         zp |-> Min(2 * z + 1, 2 * (self.nz - 1)),
         withz |-> ~cyl /\ self.nz # 1]

\* the six potentials V1 .. V6 read at those positions
Samples(self, x, y, z, c) ==
    LET at == <<<<c.xm, 2 * c.yy, 2 * c.zz>>, <<c.xp, 2 * c.yy, 2 * c.zz>>,
                <<2 * x, c.ym, 2 * c.zz>>, <<2 * x, c.yp, 2 * c.zz>>,
                <<2 * x, 2 * y, c.zm>>, <<2 * x, 2 * y, c.zp>>>>
    IN  [k \in 1 .. 6 |->
            IF k > 4 /\ ~c.withz THEN Return(self, 0)
            ELSE potential_real(self, at[k][1], at[k][2], at[k][3])]

\* the centred differences of the samples
Differences(self, y, z, c, V) ==
    LET cyl == self.symmetry = "cylindrical"
        scale == IF self.field_type = "magnetic" THEN self.ng ELSE 1
        Ex == (2 * (V[1].ret - V[2].ret)) \div (c.xp - c.xm)
        Er == (2 * (V[3].ret - V[4].ret)) \div (c.yp - c.ym)
        Ey == IF cyl /\ c.r # 0 THEN (Er * y) \div c.r ELSE Er
        Ez == IF cyl THEN (IF c.r # 0 THEN (Er * z) \div c.r ELSE 0)
              ELSE IF c.withz THEN (2 * (V[5].ret - V[6].ret)) \div (c.zp - c.zm)
              ELSE 0
    IN  IF \E k \in 1 .. 6 : V[k].outcome # "ok"
        THEN Raise(self, "AssertionError")
        ELSE IF c.xp = c.xm \/ c.yp = c.ym \/ (c.withz /\ c.zp = c.zm)
        THEN Raise(self, "ZeroDivisionError")
        ELSE Return(self, <<Ex * scale, Ey * scale, Ez * scale>>)

\* field_real at a grid point (x,y,z), as field(x,y,z) calls it
field_real(self, x, y, z) ==
    IF ~inside_real(self, 2 * x, 2 * y, 2 * z) THEN Raise(self, "AssertionError")
    ELSE Differences(self, y, z, Clamps(self, x, y, z),
                     Samples(self, x, y, z, Clamps(self, x, y, z)))

-----------------------------------------------------------------------------
(* Field reconstruction.  The result of _set_field carries `exact`: every  *)
(* division the call made came out even, so the integers of the model are  *)
(* the floats of the source.                                               *)

WithExact(r, exact) ==
    [pa |-> r.pa, outcome |-> r.outcome, ret |-> r.ret, exact |-> exact]

Forward_Uncorrected(self, x, y, z, f) ==
    IF ~inside(self, x, y, z) THEN Raise(self, "AssertionError")
    ELSE point(self, x, y, z, Some(0), Some(raw(self, x, y, z, None).ret))

\* self.point(x, y, z, 0, self.raw(x, y, z) - f): the running correction
\* of a forward neighbour
Forward(self, x, y, z, f) ==
    IF ~inside(self, x, y, z) THEN Raise(self, "AssertionError")
    ELSE point(self, x, y, z, Some(0), Some(raw(self, x, y, z, None).ret - f))

\* one of the three forward corrections, skipped at the far face and
\* after a failure
Step(w, wanted, x, y, z, f) ==
    IF w.outcome # "ok" \/ ~wanted THEN w ELSE Forward(w.pa, x, y, z, f)

\* the point itself, written from its backward neighbours once the forward
\* corrections w were made
Centre(w, x, y, z, fx, fy, fz, divided) ==
    LET s == w.pa
        P(a, b, c) == PA_potential(s, a, b, c, None).ret
        R == raw(s, x, y, z, None).ret
        \* the backward neighbours and the field components that take part
        back == (IF x # 0 THEN <<P(x - 1, y, z)>> ELSE <<>>)
                \o (IF y # 0 THEN <<P(x, y - 1, z)>> ELSE <<>>)
                \o (IF z # 0 THEN <<P(x, y, z - 1)>> ELSE <<>>)
        comps == (IF x # 0 THEN fx ELSE 0) + (IF y # 0 THEN fy ELSE 0)
                 + (IF z # 0 THEN fz ELSE 0)
        k == Bool(x # 0) + Bool(y # 0) + Bool(z # 0)
        reads_inside ==
            /\ inside(s, x, y, z)
            /\ x # 0 => inside(s, x - 1, y, z)
            /\ y # 0 => inside(s, x, y - 1, z)
            /\ z # 0 => inside(s, x, y, z - 1)
        val == IF k = 0 THEN 0
               ELSE Sum(back) \div k + (R - comps) \div (2 * k)
        exact == /\ divided
                 /\ ~reads_inside \/ k = 0
                    \/ (Sum(back) % k = 0 /\ (R - comps) % (2 * k) = 0)
    IN  IF w.outcome # "ok" THEN WithExact(w, exact)
        ELSE IF ~reads_inside THEN WithExact(Raise(s, "AssertionError"), exact)
        ELSE WithExact(point(s, x, y, z, Some(0), Some(val)), exact)

_set_field(self, x, y, z, field_x, field_y, field_z) ==
    LET mag == self.field_type = "magnetic"
        ng == IF mag /\ self.ng # 0 THEN self.ng ELSE 1
        fx == field_x \div ng
        fy == field_y \div ng
        fz == field_z \div ng
    IN  IF mag /\ self.ng = 0 THEN WithExact(Raise(self, "ZeroDivisionError"), TRUE)
        ELSE Centre(Step(Step(Step(Return(self, None),
                                   x # self.nx - 1, x + 1, y, z, fx),
                              y # self.ny - 1, x, y + 1, z, fy),
                         z # self.nz - 1, x, y, z + 1, fz),
                    x, y, z, fx, fy, fz,
                    field_x % ng = 0 /\ field_y % ng = 0 /\ field_z % ng = 0)

\* field(x, y, z, ex, ey, ez): the getter at a grid point, or the setter
field(self, x, y, z, ex, ey, ez) ==
    IF ex = None
    THEN IF ~inside(self, x, y, z) THEN WithExact(Raise(self, "AssertionError"), TRUE)
         ELSE WithExact(field_real(self, x, y, z), TRUE)
    ELSE _set_field(self, x, y, z, The(ex), The(ey), The(ez))

-----------------------------------------------------------------------------
(* The text dump of the header: the lines, each a key with its value *)

header_string_StoredMode(self) ==
    <<<<"begin_header">>,
      <<"mode", mode_get(self)>>,
      <<"symmetry", self.symmetry>>,
      <<"max_voltage", self.max_voltage>>,
      <<"nx", self.nx>>,
      <<"ny", self.ny>>,
      <<"nz", self.nz>>,
      <<"mirror_x", Bool(Truthy(self.mirror_x))>>,
      <<"mirror_y", Bool(Truthy(self.mirror_y))>>,
      <<"mirror_z", Bool(Truthy(self.mirror_z))>>,
      <<"field_type", self.field_type>>,
      <<"ng", self.ng>>>>
    \o (IF self.mode <= -2
        THEN <<<<"dx_mm", self.dx_mm>>, <<"dy_mm", self.dy_mm>>,
               <<"dz_mm", self.dz_mm>>>>
        ELSE <<>>)
    \o <<<<"fast_adjustable", self.fast_adjustable>>,
         <<"end_header">>>>

header_string(self) ==
    <<<<"begin_header">>,
      <<"mode", mode_get(self)>>,
      <<"symmetry", self.symmetry>>,
      <<"max_voltage", self.max_voltage>>,
      <<"nx", self.nx>>,
      <<"ny", self.ny>>,
      <<"nz", self.nz>>,
      <<"mirror_x", Bool(Truthy(self.mirror_x))>>,
      <<"mirror_y", Bool(Truthy(self.mirror_y))>>,
      <<"mirror_z", Bool(Truthy(self.mirror_z))>>,
      <<"field_type", self.field_type>>,
      <<"ng", self.ng>>>>
    \o (IF mode_get(self) <= -2
        THEN <<<<"dx_mm", self.dx_mm>>, <<"dy_mm", self.dy_mm>>,
               <<"dz_mm", self.dz_mm>>>>
        ELSE <<>>)
    \o <<<<"fast_adjustable", self.fast_adjustable>>,
         <<"end_header">>>>

-----------------------------------------------------------------------------
(* Bounds and input sets *)

\* calls made on one instance after its construction
MaxCalls == 2

Paths == {<<"a", ".", "p", "a", "#">>, <<"a", ".", "p", "a", "0">>}

\* the file system before anything was written
NoFiles ==
    [data |-> [p \in Paths |-> None], open |-> {},
     writer |-> [p \in Paths |-> None], writable |-> Paths]

NoCall == [op |-> "PA", args |-> <<>>, outcome |-> "ok", ret |-> None]

\* the instances PA(...) builds from a set of argument records
Built(argsets) ==
    {PA_init(NoFiles, a).pa : a \in {b \in argsets : PA_init(NoFiles, b).outcome = "ok"}}

\* one call on the instance: the state after it, and the record of it
Did(op, args, r) ==
    /\ ncalls < MaxCalls
    /\ pa' = r.pa
    /\ pre' = pa
    /\ call' = [op |-> op, args |-> args, outcome |-> r.outcome, ret |-> r.ret]
    /\ ncalls' = ncalls + 1

-----------------------------------------------------------------------------
(* Spec: the header setters, set and size on a constructed array that      *)
(* holds some point data.                                                   *)

Flags == {None, Some(0), Some(1)}
MirrorStrings == {<<>>, <<"x">>, <<"y">>, <<"z">>, <<"y", "z">>, <<"z", "y">>}

\* constructor arguments: defaults, the dimensions, a symmetry, a mirror
\* string, or single mirror flags (which leave the other flags unset)
CtorArgs ==
    {[NoArgs EXCEPT !.nx = nx, !.nz = nz, !.symmetry = sy] :
        nx \in {None, Some(4)}, nz \in {None, Some(2)},
        sy \in {None, Some("cylindrical")}}
    \cup {[NoArgs EXCEPT !.nz = nz, !.mirror = Some(m)] :
            nz \in {None, Some(2)}, m \in {<<"x">>, <<"y", "z">>}}
    \cup {[NoArgs EXCEPT !.mirror_x = Some(1), !.symmetry = sy] :
            sy \in {None, Some("cylindrical")}}
    \cup {[NoArgs EXCEPT !.max_voltage = Some(100000)],
          [NoArgs EXCEPT !.dy_mm = Some(2 * DefaultDxMm)],
          [NoArgs EXCEPT !.mode = Some(-2)]}

\* arguments of set: dimensions (also the current ones), symmetry with
\* mirror flags, max_voltage
SetArgs ==
    {[NoArgs EXCEPT !.nx = nx, !.ny = ny, !.nz = nz] :
        nx \in {None, Some(3), Some(4)}, ny \in {None, Some(3)},
        nz \in {None, Some(2)}}
    \cup {[NoArgs EXCEPT !.symmetry = sy, !.mirror_y = my, !.mirror_z = mz] :
            sy \in {None, Some("cylindrical")},
            my \in Flags, mz \in {None, Some(1)}}
    \cup {[NoArgs EXCEPT !.max_voltage = Some(v), !.nx = nx] :
            v \in {-1, 200000}, nx \in {None, Some(3)}}
    \cup {[NoArgs EXCEPT !.mirror = Some(m), !.mirror_y = my] :
            m \in {<<"y">>, <<"z", "y">>}, my \in {None, Some(1)}}

Dims == {None, Some(2), Some(3), Some(4)}
Depths == {None, Some(0), Some(1), Some(2)}
Sizes == {<<Some(3), Some(3), Some(1)>>, <<Some(4), Some(3), Some(1)>>,
          <<Some(3), Some(3), Some(2)>>, <<Some(2), Some(3), Some(1)>>,
          <<Some(3), Some(3), Some(0)>>, <<None, Some(3), Some(1)>>}

\* the point writes of Spec: (x, y, z, is_electrode, potential)
PointWrites == {<<1, 1, 0, 1, 5>>, <<0, 0, 0, 0, -3>>}

Init ==
    /\ pa \in Built(CtorArgs)
    /\ pre = pa
    /\ call = NoCall
    /\ ncalls = 0
    /\ files = NoFiles
    /\ fresh = None
    /\ scan = None

CallSet ==
    \E a \in SetArgs :
        /\ Did("set", a, set(pa, files, a))
        /\ UNCHANGED <<files, fresh, scan>>

CallSize ==
    \E s \in Sizes :
        /\ Did("size", s, size(pa, s[1], s[2], s[3]))
        /\ UNCHANGED <<files, fresh, scan>>

CallNx ==
    \E nx \in Dims :
        /\ Did("nx", <<nx>>, PA_nx(pa, nx))
        /\ UNCHANGED <<files, fresh, scan>>

CallNy ==
    \E ny \in Dims :
        /\ Did("ny", <<ny>>, PA_ny(pa, ny))
        /\ UNCHANGED <<files, fresh, scan>>

CallNz ==
    \E nz \in Depths :
        /\ Did("nz", <<nz>>, PA_nz(pa, nz))
        /\ UNCHANGED <<files, fresh, scan>>

CallSymmetry ==
    \E sy \in {None, Some("planar"), Some("cylindrical"), Some("spherical")} :
        /\ Did("symmetry", <<sy>>, PA_symmetry(pa, sy))
        /\ UNCHANGED <<files, fresh, scan>>

CallMirror ==
    \E m \in {None} \cup {Some(t) : t \in MirrorStrings} :
        /\ Did("mirror", <<m>>, PA_mirror(pa, m))
        /\ UNCHANGED <<files, fresh, scan>>

CallMirrorX ==
    \E f \in Flags :
        /\ Did("mirror_x", <<f>>, PA_mirror_x(pa, f))
        /\ UNCHANGED <<files, fresh, scan>>

CallMirrorY ==
    \E f \in Flags :
        /\ Did("mirror_y", <<f>>, PA_mirror_y(pa, f))
        /\ UNCHANGED <<files, fresh, scan>>

CallMirrorZ ==
    \E f \in Flags :
        /\ Did("mirror_z", <<f>>, PA_mirror_z(pa, f))
        /\ UNCHANGED <<files, fresh, scan>>

CallPointWrite ==
    \E w \in PointWrites :
        /\ Did("point", w, point(pa, w[1], w[2], w[3], Some(w[4]), Some(w[5])))
        /\ UNCHANGED <<files, fresh, scan>>

CallHeaderString ==
    /\ Did("header_string", <<>>, Return(pa, header_string(pa)))
    /\ UNCHANGED <<files, fresh, scan>>

Next ==
    \/ CallSet
    \/ CallSize
    \/ CallNx
    \/ CallNy
    \/ CallNz
    \/ CallSymmetry
    \/ CallMirror
    \/ CallMirrorX
    \/ CallMirrorY
    \/ CallMirrorZ
    \/ CallPointWrite
    \/ CallHeaderString

Spec == Init /\ [][Next]_vars

-----------------------------------------------------------------------------
(* Properties of the header setters (checked under Spec) *)

GridOf(self) ==
    {c \in (0 .. self.nx - 1) \X (0 .. self.ny - 1) \X (0 .. self.nz - 1) : TRUE}

\* every in-bounds point reads (false, 0)
AllClear(self) ==
    /\ Len(self.points) = self.nx * self.ny * self.nz
    /\ \A c \in GridOf(self) :
          LET r == point(self, c[1], c[2], c[3], None, None)
          IN  r.outcome = "ok" /\ r.ret = <<0, 0>>

HoldsData(self) == \E i \in 1 .. Len(self.points) : self.points[i] # 0

\* a successful call of size or of the nx, ny, nz setters
ResizedBySetter ==
    /\ call.op \in {"size", "nx", "ny", "nz"}
    /\ call.outcome = "ok"
    /\ call.args[1] # None

\* a successful call of set that was given a dimension
SetGivenDims ==
    /\ call.op = "set"
    /\ call.outcome = "ok"
    /\ (call.args.nx # None \/ call.args.ny # None \/ call.args.nz # None)

\* ... and the dimensions it was given are the ones the array had
SetGivenSameDims ==
    /\ SetGivenDims
    /\ call.args.nx \in {None, Some(pre.nx)}
    /\ call.args.ny \in {None, Some(pre.ny)}
    /\ call.args.nz \in {None, Some(pre.nz)}

\* C4 as stated: after any successful resize, set given dimensions
\* included and also when the dimensions are the old ones, every in-bounds
\* point reads (false, 0).
C4_Original == (ResizedBySetter \/ SetGivenDims) => AllClear(pa)

\* C4, amended: size and the nx, ny, nz setters always leave every point
\* reading (false, 0), also for the old dimensions; set clears the points
\* when a given dimension differs from the current one, and keeps every
\* stored value when the dimensions it is given are the current ones.
C4_ResizeClears ==
    /\ ResizedBySetter => AllClear(pa)
    /\ (SetGivenDims /\ ~SetGivenSameDims) => AllClear(pa)
    /\ SetGivenSameDims => pa.points = pre.points

\* C4 witness: set was given the current dimensions of an array holding
\* data, and the data is still there
C4_Witness == SetGivenSameDims /\ HoldsData(pre) /\ HoldsData(pa)

\* C5: in every state reached by successful public calls, cylindrical
\* symmetry implies nz = 1 and mirror_y true, and mirror_z true implies
\* nz > 1.
C5_Structural ==
    /\ pa.symmetry = "cylindrical" => (pa.nz = 1 /\ Truthy(pa.mirror_y))
    /\ Truthy(pa.mirror_z) => pa.nz > 1

\* the keys of a dump, between its first and its last line
Keys(h) == [i \in 1 .. Len(h) - 2 |-> h[i + 1][1]]

Lines(h) == {h[i] : i \in 1 .. Len(h)}

\* the array of the example: PA(nx=3, ny=3, nz=1, symmetry='planar',
\* max_voltage=100000) after point(1, 1, 0, 1, 5)
DumpExample ==
    point(PA_init(NoFiles, [NoArgs EXCEPT !.nx = Some(3), !.ny = Some(3),
                                          !.nz = Some(1),
                                          !.symmetry = Some("planar"),
                                          !.max_voltage = Some(100000)]).pa,
          1, 1, 0, Some(1), Some(5)).pa

\* C10: header_string emits, between begin_header and end_header, the keys
\* mode, symmetry, max_voltage, nx, ny, nz, mirror_x, mirror_y, mirror_z,
\* field_type, ng, then dx_mm, dy_mm, dz_mm exactly when the reported mode
\* is <= -2, then fast_adjustable; the dump of the example array reports
\* mode -1, nx 3, ny 3, nz 1, field_type electrostatic and mirror_y 0.
C10_HeaderDump ==
    call.op = "header_string" =>
        LET h == call.ret
        IN  /\ call.outcome = "ok"
            /\ h[1] = <<"begin_header">>
            /\ h[Len(h)] = <<"end_header">>
            /\ Keys(h) =
                <<"mode", "symmetry", "max_voltage", "nx", "ny", "nz",
                  "mirror_x", "mirror_y", "mirror_z", "field_type", "ng">>
                \o (IF mode_get(pre) <= -2
                    THEN <<"dx_mm", "dy_mm", "dz_mm">> ELSE <<>>)
                \o <<"fast_adjustable">>
            /\ pre = DumpExample =>
                  {<<"mode", -1>>, <<"nx", 3>>, <<"ny", 3>>, <<"nz", 1>>,
                   <<"field_type", "electrostatic">>, <<"mirror_y", 0>>}
                      \subseteq Lines(h)

\* C10 witness: the dump of the example array was taken
C10_Witness == call.op = "header_string" /\ pre = DumpExample

\* the integer coordinates of the grid and one step past each face
Around(self) ==
    (-1 .. self.nx) \X (-1 .. self.ny) \X (-1 .. self.nz)

\* C12: in every array state, planar or cylindrical and with any mirror
\* flags, every integer coordinate (x, y, z) with inside(x, y, z) also
\* has inside_real(x, y, z).
C12_InsideImpliesInsideReal ==
    \A c \in Around(pa) :
        inside(pa, c[1], c[2], c[3])
            => inside_real(pa, 2 * c[1], 2 * c[2], 2 * c[3])

\* C12 witness: a cylindrical array was resized to nx # ny, and its far
\* corner is inside and inside_real
C12_Witness ==
    /\ call.op = "size" /\ call.outcome = "ok"
    /\ pa.symmetry = "cylindrical"
    /\ pa.nx # pa.ny
    /\ inside(pa, pa.nx - 1, pa.ny - 1, 0)
    /\ inside_real(pa, 2 * (pa.nx - 1), 2 * (pa.ny - 1), 0)
    /\ ~inside(pa, pa.nx, 0, 0)

\* a successful set(max_voltage = M') with M' above the current
\* max_voltage and no other argument, on an array holding an electrode
\* point
SetRaisesMaxVoltage ==
    /\ call.op = "set"
    /\ call.outcome = "ok"
    /\ call.args.max_voltage # None
    /\ call.args = [NoArgs EXCEPT !.max_voltage = call.args.max_voltage]
    /\ The(call.args.max_voltage) > pre.max_voltage
    /\ \E c \in GridOf(pre) :
          electrode(pre, c[1], c[2], c[3], None).ret = 1

\* C13: after set(max_voltage = M') with M' greater than the current M on
\* an array holding electrode points, every point reads the same
\* (electrode flag, potential) as before: 2 * (M' - M) was added to every
\* electrode-flagged stored value.
C13_SetPreservesDecoded ==
    SetRaisesMaxVoltage =>
        /\ pa.max_voltage = The(call.args.max_voltage)
        /\ \A c \in GridOf(pre) :
              /\ point(pa, c[1], c[2], c[3], None, None).ret
                    = point(pre, c[1], c[2], c[3], None, None).ret
              /\ raw(pa, c[1], c[2], c[3], None).ret
                    = raw(pre, c[1], c[2], c[3], None).ret
                      + (IF electrode(pre, c[1], c[2], c[3], None).ret = 1
                         THEN 2 * (pa.max_voltage - pre.max_voltage) ELSE 0)

-----------------------------------------------------------------------------
(* SpecPoints: the point accessors and the max_voltage setter on a 3 x 3   *)
(* array of depth 1 or 2, with coordinates inside and outside the grid.    *)

PointCtorArgs ==
    {[NoArgs EXCEPT !.max_voltage = mv, !.nz = nz] :
        mv \in {None, Some(10), Some(0)}, nz \in {None, Some(2)}}
    \cup {[NoArgs EXCEPT !.symmetry = Some("cylindrical")],
          [NoArgs EXCEPT !.field_type = Some("magnetic"), !.ng = Some(0)]}

\* two points of every grid, one of the deeper grid only, and one past
\* each face
Coords ==
    {<<1, 1, 0>>, <<0, 0, 0>>, <<0, 0, 1>>,
     <<-1, 0, 0>>, <<3, 0, 0>>, <<0, -1, 0>>, <<0, 3, 0>>,
     <<0, 0, -1>>, <<0, 0, 2>>}

\* the point that is written with every value; the others get one value
Probe == <<1, 1, 0>>

Potentials == {-10, -5, 0, 5, 10, 15}
RawValues == {5, 25}

\* the values a setter is called with at c: every one at the probe, one
\* elsewhere, and None for the getter
Given(c, values, one) ==
    {None} \cup {Some(q) : q \in IF c = Probe THEN values ELSE {one}}
Voltages == {None, Some(20), Some(5), Some(-1)}

InitPoints ==
    /\ pa \in Built(PointCtorArgs)
    /\ pre = pa
    /\ call = NoCall
    /\ ncalls = 0
    /\ files = NoFiles
    /\ fresh = None
    /\ scan = None

GetOrSetElectrode ==
    \E c \in Coords, e \in Flags :
        /\ Did("electrode", <<c[1], c[2], c[3], e>>,
               electrode(pa, c[1], c[2], c[3], e))
        /\ UNCHANGED <<files, fresh, scan>>

GetOrSetPotential ==
    \E c \in Coords :
      \E v \in Given(c, Potentials, 5) :
        /\ Did("potential", <<c[1], c[2], c[3], v>>,
               PA_potential(pa, c[1], c[2], c[3], v))
        /\ UNCHANGED <<files, fresh, scan>>

GetOrSetPoint ==
    \E c \in Coords, e \in Flags :
      \E v \in Given(c, Potentials, 5) :
        /\ e = None => v = None
        /\ Did("point", <<c[1], c[2], c[3], e, v>>,
               point(pa, c[1], c[2], c[3], e, v))
        /\ UNCHANGED <<files, fresh, scan>>

GetOrSetRaw ==
    \E c \in Coords :
      \E v \in Given(c, RawValues, 5) :
        /\ Did("raw", <<c[1], c[2], c[3], v>>, raw(pa, c[1], c[2], c[3], v))
        /\ UNCHANGED <<files, fresh, scan>>

GetOrSetField ==
    \E c \in Coords, e \in {None, Some(4)} :
        /\ Did("field", <<c[1], c[2], c[3], e>>,
               field(pa, c[1], c[2], c[3], e, Some(0), Some(0)))
        /\ UNCHANGED <<files, fresh, scan>>

GetOrSetMaxVoltage ==
    \E v \in Voltages :
        /\ Did("max_voltage", <<v>>, PA_max_voltage(pa, v))
        /\ UNCHANGED <<files, fresh, scan>>

NextPoints ==
    \/ GetOrSetElectrode
    \/ GetOrSetPotential
    \/ GetOrSetPoint
    \/ GetOrSetRaw
    \/ GetOrSetField
    \/ GetOrSetMaxVoltage

SpecPoints == InitPoints /\ [][NextPoints]_vars

-----------------------------------------------------------------------------
(* Properties of the point accessors (checked under SpecPoints) *)

ReadElectrode(self, c) == electrode(self, c[1], c[2], c[3], None).ret
ReadPotential(self, c) == PA_potential(self, c[1], c[2], c[3], None).ret
ReadRaw(self, c) == raw(self, c[1], c[2], c[3], None).ret
ReadPoint(self, c) == point(self, c[1], c[2], c[3], None, None).ret

\* a successful call of the max_voltage setter with a value above the
\* current one
Raised ==
    /\ call.op = "max_voltage"
    /\ call.outcome = "ok"
    /\ call.args[1] # None
    /\ The(call.args[1]) > pre.max_voltage

\* C2: the max_voltage setter called with M' > M leaves potential and
\* electrode unchanged at every point, increases raw by exactly 2*(M'-M)
\* at every point that was an electrode, and leaves raw unchanged at every
\* other point.
C2_Rescale ==
    Raised =>
        \A c \in GridOf(pre) :
            /\ ReadPotential(pa, c) = ReadPotential(pre, c)
            /\ ReadElectrode(pa, c) = ReadElectrode(pre, c)
            /\ ReadRaw(pa, c) =
                  ReadRaw(pre, c)
                  + (IF ReadElectrode(pre, c) = 1
                     THEN 2 * (pa.max_voltage - pre.max_voltage) ELSE 0)

\* C2 witness: max_voltage was raised on an array holding an electrode
\* point with a potential beside non-electrode points
C2_Witness ==
    /\ Raised
    /\ \E c \in GridOf(pre) : ReadElectrode(pre, c) = 1 /\ ReadPotential(pre, c) # 0
    /\ \E c \in GridOf(pre) : ReadElectrode(pre, c) = 0

\* a successful electrode(x, y, z, true) at a point holding a potential p
\* with 0 <= p < max_voltage
FlagSet ==
    /\ call.op = "electrode"
    /\ call.outcome = "ok"
    /\ Truthy(call.args[4])
    /\ ReadPotential(pre, call.args) >= 0
    /\ ReadPotential(pre, call.args) < pre.max_voltage

\* C3: once a point holding a potential p, 0 <= p < max_voltage, was given
\* electrode(x, y, z, true), point(x, y, z) reads (true, p); from there
\* electrode(false) followed by electrode(true) restores the same raw
\* value, and setting the flag to the state it has leaves raw alone.
C3_ElectrodeEncoding ==
    FlagSet =>
        LET c == call.args
            off == electrode(pa, c[1], c[2], c[3], Some(0)).pa
            on == electrode(off, c[1], c[2], c[3], Some(1)).pa
        IN  /\ ReadPoint(pa, c) = <<1, ReadPotential(pre, c)>>
            /\ ReadPoint(off, c) = <<0, ReadPotential(pre, c)>>
            /\ ReadRaw(on, c) = ReadRaw(pa, c)
            /\ electrode(pa, c[1], c[2], c[3], Some(1)).pa = pa
            /\ electrode(off, c[1], c[2], c[3], Some(0)).pa = off

\* C3 witness: the flag was set on a non-electrode point holding a
\* potential strictly between 0 and max_voltage
C3_Witness ==
    /\ FlagSet
    /\ ReadElectrode(pre, call.args) = 0
    /\ ReadPotential(pre, call.args) > 0

\* a call of a coordinate accessor with a coordinate outside the grid
OutOfBounds ==
    /\ call.op \in {"raw", "electrode", "potential", "point", "field"}
    /\ \/ call.args[1] < 0 \/ call.args[1] >= pre.nx
       \/ call.args[2] < 0 \/ call.args[2] >= pre.ny
       \/ call.args[3] < 0 \/ call.args[3] >= pre.nz

\* C9: raw, electrode, potential, point and field (get and set), called
\* with x < 0, x >= nx, y < 0, y >= ny, z < 0 or z >= nz, fail with the
\* bounds error and return no value.
C9_Bounds ==
    OutOfBounds => call.outcome = "AssertionError" /\ call.ret = None

\* a successful point(x, y, z, e, p) with both e and p given
PointSet ==
    /\ call.op = "point"
    /\ call.outcome = "ok"
    /\ call.args[4] # None
    /\ call.args[5] # None

\* electrode(x, y, z, e) followed by potential(x, y, z, p) on the state
\* before the call
ElectrodeThenPotential ==
    LET c == call.args
        flagged == electrode(pre, c[1], c[2], c[3], c[4])
    IN  IF flagged.outcome # "ok" THEN flagged
        ELSE PA_potential(flagged.pa, c[1], c[2], c[3], c[5])

FlagTaken ==
    LET c == call.args
    IN  ReadElectrode(electrode(pre, c[1], c[2], c[3], c[4]).pa, c)
            = Bool(Truthy(c[4]))

PotentialWritten ==
    /\ call.op \in {"potential", "point"}
    /\ call.outcome = "ok"
    /\ call.args[Len(call.args)] # None

\* the potential v it was given
WrittenValue == The(call.args[Len(call.args)])

\* the flag the written point has to read: the one given to point, the
\* one the point had for potential
WrittenFlag ==
    IF call.op = "point" THEN Bool(Truthy(call.args[4]))
    ELSE ReadElectrode(pre, call.args)

\* the grid points other than the written one
OtherPoints ==
    {d \in GridOf(pre) : d # <<call.args[1], call.args[2], call.args[3]>>}

\* C17: potential(x, y, z, v) or point(x, y, z, e, v) with v > max_voltage
\* sets max_voltage to 2 * v; then the point reads potential v, with its
\* previous flag for potential and the flag e for point, and every other
\* point reads the electrode flag and the potential it read before.  With
\* v <= max_voltage, max_voltage and the raw value of every other point
\* are unchanged.
C17_AutoRaise ==
    PotentialWritten =>
        IF WrittenValue > pre.max_voltage
        THEN /\ pa.max_voltage = 2 * WrittenValue
             /\ ReadPoint(pa, call.args) = <<WrittenFlag, WrittenValue>>
             /\ \A d \in OtherPoints : ReadPoint(pa, d) = ReadPoint(pre, d)
        ELSE /\ pa.max_voltage = pre.max_voltage
             /\ \A d \in OtherPoints : ReadRaw(pa, d) = ReadRaw(pre, d)

\* C17 witness: potential wrote a value above max_voltage beside an
\* electrode point holding a potential
C17_Witness ==
    /\ PotentialWritten
    /\ call.op = "potential"
    /\ WrittenValue > pre.max_voltage
    /\ pre.max_voltage > 0
    /\ \E d \in OtherPoints :
          ReadElectrode(pre, d) = 1 /\ ReadPotential(pre, d) # 0

\* the calls that can change the array
Mutators ==
    {"set", "mode", "max_voltage", "field_type", "ng", "symmetry",
     "mirror_y", "mirror_z", "nx", "ny", "nz", "size",
     "dx_mm", "dy_mm", "dz_mm",
     "raw", "electrode", "potential", "point", "solid", "field"}

\* C27: whenever set (without file), a header setter or a point mutator
\* (raw, electrode, potential, point, solid, and the field setter called
\* with an out-of-bounds coordinate) raises, every header field and every
\* stored point value is the same as before the call.
C27_FailureChangesNothing ==
    (call.op \in Mutators /\ call.outcome # "ok") =>
        [pa EXCEPT !.error = pre.error] = pre

\* C28: for every in-bounds point, every flag e and every potential p
\* (negative, zero, up to and above max_voltage, and for max_voltage = 0),
\* point(x,y,z,e,p) followed by point(x,y,z) returns (e, p).
C28_PointRoundTrip ==
    PointSet =>
        ReadPoint(pa, <<call.args[1], call.args[2], call.args[3]>>)
            = <<Bool(Truthy(call.args[4])), The(call.args[5])>>

-----------------------------------------------------------------------------
(* SpecCheck: the checker called with argument sets on a constructed       *)
(* array.                                                                   *)

CheckCtorArgs ==
    {NoArgs, [NoArgs EXCEPT !.symmetry = Some("cylindrical")],
     [NoArgs EXCEPT !.nz = Some(2), !.mirror = Some(<<"z">>)]}

CheckArgs ==
    {[NoArgs EXCEPT !.symmetry = sy, !.nz = nz, !.mirror_y = my, !.mirror_z = mz] :
        sy \in {None, Some("planar"), Some("cylindrical")},
        nz \in {None, Some(-1), Some(0), Some(1), Some(2), Some(3)},
        my \in Flags, mz \in Flags}
    \cup {[NoArgs EXCEPT !.nx = nx, !.ny = ny, !.nz = nz, !.symmetry = sy] :
            nx \in {Some(2), Some(3)}, ny \in {None, Some(3)},
            nz \in {None, Some(1), Some(2)}, sy \in {None, Some("cylindrical")}}
    \cup {[NoArgs EXCEPT !.mirror = Some(m), !.nz = nz, !.mirror_z = mz] :
            m \in {<<"z">>, <<"z", "y">>}, nz \in {None, Some(1)},
            mz \in {None, Some(1)}}

\* pa.check(...) as a call: the flag returned, the error slot written
CheckCall(self, a) ==
    LET c == check(self, a)
        s == [self EXCEPT !.error = c.error]
    IN  IF c.exc # "ok" THEN Raise(s, c.exc) ELSE Return(s, Bool(c.ok))

InitCheck ==
    /\ pa \in Built(CheckCtorArgs)
    /\ pre = pa
    /\ call = NoCall
    /\ ncalls = 0
    /\ files = NoFiles
    /\ fresh = None
    /\ scan = None

CallCheck ==
    \E a \in CheckArgs :
        /\ Did("check", a, CheckCall(pa, a))
        /\ UNCHANGED <<files, fresh, scan>>

NextCheck == CallCheck

SpecCheck == InitCheck /\ [][NextCheck]_vars

\* check was called with no dimension but (possibly) nz
NoSizeGiven == call.op = "check" /\ call.args.nx = None /\ call.args.ny = None

Refused == call.outcome = "ok" /\ call.ret = 0

\* C6: on any instance check(symmetry='cylindrical', nz=n) returns false
\* for every n # 1, check(symmetry='cylindrical', mirror_y=0) returns
\* false, and check(mirror_z=1, nz=1) returns false.
C6_SymmetryConstraints ==
    NoSizeGiven =>
        /\ (call.args.symmetry = Some("cylindrical")
            /\ call.args.nz \notin {None, Some(1)}) => Refused
        /\ (call.args.symmetry = Some("cylindrical")
            /\ call.args.mirror_y = Some(0)) => Refused
        /\ (call.args.mirror_z = Some(1) /\ call.args.nz = Some(1)) => Refused

\* C6 witness: check(symmetry='cylindrical', nz=2) was called on a
\* cylindrical array
C6_Witness ==
    /\ NoSizeGiven
    /\ pre.symmetry = "cylindrical"
    /\ call.args = [NoArgs EXCEPT !.symmetry = Some("cylindrical"), !.nz = Some(2)]

\* C22: check is total: for any subset of its named parameters (nx
\* alone, ny alone, a mirror string that is not an ordered subset of
\* "xyz") it returns a boolean without raising; when it returns false
\* the last-error slot holds the message of that failure, and when it
\* returns true the slot is left as it was.
C22_CheckTotal ==
    call.op = "check" =>
        /\ call.outcome = "ok"
        /\ call.ret \in {0, 1}
        /\ call.ret = 0 => pa.error # None /\ pa.error = check(pre, call.args).error
        /\ call.ret = 1 => pa.error = pre.error

-----------------------------------------------------------------------------
(* SpecField: the field setter driven over a freshly zeroed planar array   *)
(* of depth 1, once per point, y outer and x inner, with one constant      *)
(* vector (ex, ey, 0).  Fields and potentials are in sixteenths: the field *)
(* values are multiples of 16 and ng is 1 or 4, which keeps every division *)
(* of _set_field exact; a scan with (16, 0, 0) is the scan with (1, 0, 0). *)

FieldCtorArgs ==
    {[NoArgs EXCEPT !.nx = nx, !.max_voltage = mv] :
        nx \in {None, Some(5)}, mv \in {None, Some(0)}}
    \cup {[NoArgs EXCEPT !.nx = nx, !.field_type = Some("magnetic"), !.ng = Some(ng)] :
            nx \in {None, Some(5)}, ng \in {0, 1, 4}}

FieldValues == {-32, -16, 0, 16, 32}

InitField ==
    /\ pa \in Built(FieldCtorArgs)
    /\ pre = pa
    /\ call = NoCall
    /\ ncalls = 0
    /\ files = NoFiles
    /\ fresh = None
    /\ \E ex \in FieldValues, ey \in FieldValues :
          scan = Some([next |-> 0, ex |-> ex, ey |-> ey, exact |-> TRUE])

\* the next pa.field(x, y, 0, ex, ey, 0) of the scan
ScanStep ==
    /\ scan # None
    /\ The(scan).next < pa.nx * pa.ny
    /\ LET sc == The(scan)
           x == sc.next % pa.nx
           y == sc.next \div pa.nx
           r == field(pa, x, y, 0, Some(sc.ex), Some(sc.ey), Some(0))
       IN  /\ pa' = r.pa
           /\ pre' = pa
           /\ call' = [op |-> "field", args |-> <<x, y, 0, sc.ex, sc.ey, 0>>,
                       outcome |-> r.outcome, ret |-> r.ret]
           /\ scan' = Some([sc EXCEPT !.next = IF r.outcome = "ok" THEN @ + 1 ELSE @,
                                      !.exact = @ /\ r.exact])
    /\ UNCHANGED <<ncalls, files, fresh>>

NextField == ScanStep

SpecField == InitField /\ [][NextField]_vars

\* the scan has visited every point
ScanDone == scan # None /\ The(scan).next = pa.nx * pa.ny

\* the factor the setter divides the field by
Divisor(self) == IF self.field_type = "magnetic" THEN self.ng ELSE 1

\* C7 as stated: after the field setter was called once per point of a
\* freshly zeroed planar array of depth 1, y outer and x inner, with the
\* constant vector (Ex, Ey, 0), potential(x, y, 0) = -(Ex*x + Ey*y) at
\* every grid point.
C7_Original ==
    ScanDone =>
        \A c \in GridOf(pa) :
            ReadPotential(pa, c) = -(The(scan).ex * c[1] + The(scan).ey * c[2])

\* C7, amended: after that scan potential(x, y, 0) = -(Ex*x + Ey*y) on an
\* electrostatic array and -(Ex*x + Ey*y) / ng on a magnetic array with
\* ng >= 1; with nx = 5, ny = 3, Ex = 1, Ey = 0 on an electrostatic array
\* that is potential(x, 0, 0) = -x.  No step of such a scan fails or
\* rounds.  On a magnetic array with ng = 0 every call of the setter
\* raises ZeroDivisionError and changes nothing.
C7_FieldReconstruction ==
    /\ (call.op = "field" /\ Divisor(pre) # 0) =>
          The(scan).exact /\ call.outcome = "ok"
    /\ (call.op = "field" /\ Divisor(pre) = 0) =>
          call.outcome = "ZeroDivisionError" /\ pa = pre
    /\ ScanDone =>
          \A c \in GridOf(pa) :
              ReadPotential(pa, c) * Divisor(pa)
                  = -(The(scan).ex * c[1] + The(scan).ey * c[2])

\* C7 witness: the scan of the electrostatic 5 x 3 array with (1, 0, 0) is
\* complete
C7_Witness ==
    /\ ScanDone
    /\ pa.nx = 5 /\ pa.ny = 3 /\ pa.field_type = "electrostatic"
    /\ The(scan).ex = 16 /\ The(scan).ey = 0
    /\ \A x \in 0 .. 4 : ReadPotential(pa, <<x, 0, 0>>) = -16 * x

\* C29: on a magnetic array whose ng passed the checker (any ng >= 0,
\* including 0), calling the field setter on in-bounds points in
\* lexicographic order completes without raising.
C29_MagneticSetterDefined ==
    (call.op = "field" /\ pre.field_type = "magnetic"
        /\ check_ng(pre, pre.ng).ok
        /\ inside(pre, call.args[1], call.args[2], call.args[3]))
      => call.outcome = "ok"

---------
(* SpecInterp: potential_real on arrays whose points all hold values, at   *)
(* grid points, between them, on mirrored sides and outside.  Real         *)
(* coordinates are in half grid units, and potential_real returns eight    *)
(* times the potential (its weights are halves along three axes).          *)

InterpCtorArgs ==
    {[NoArgs EXCEPT !.max_voltage = Some(10), !.nz = nz, !.mirror = Some(m)] :
        nz \in {None, Some(2)}, m \in {<<>>, <<"x">>, <<"x", "y">>}}
    \cup {[NoArgs EXCEPT !.max_voltage = Some(10), !.nz = Some(2),
                         !.mirror = Some(<<"z">>)],
          [NoArgs EXCEPT !.max_voltage = Some(10), !.symmetry = Some("cylindrical")],
          [NoArgs EXCEPT !.max_voltage = Some(10), !.symmetry = Some("cylindrical"),
                         !.mirror = Some(<<"x", "y">>)]}

\* the values written to the points, by position: electrodes and
\* non-electrodes, potentials of both signs, no two neighbours alike
Patterns ==
    {[n \in 1 .. 18 |-> 7 * n - 20], [n \in 1 .. 18 |-> 3 - n]}

\* pa.raw(x, y, z, v[n]) at every point n
Filled(self, v) == [self EXCEPT !.points = [n \in 1 .. Len(self.points) |-> v[n]]]

HalfX == {-2, 0, 1, 2, 4, 5}
HalfY == {-2, 0, 1, 2, 4}
HalfZ == {-1, 0, 2, 3}

InitInterp ==
    /\ pa \in {Filled(a, v) : a \in Built(InterpCtorArgs), v \in Patterns}
    /\ pre = pa
    /\ call = NoCall
    /\ ncalls = 0
    /\ files = NoFiles
    /\ fresh = None
    /\ scan = None

CallPotentialReal ==
    \E x2 \in HalfX, y2 \in HalfY, z2 \in HalfZ :
        /\ pa.symmetry = "cylindrical" => IsSquare(y2 * y2 + z2 * z2)
        /\ Did("potential_real", <<x2, y2, z2>>, potential_real(pa, x2, y2, z2))
        /\ UNCHANGED <<files, fresh, scan>>

NextInterp == CallPotentialReal

SpecInterp == InitInterp /\ [][NextInterp]_vars

\* potential_real was called at the grid point (x, y, z) of the array
AtGridPoint(x, y, z) ==
    /\ call.op = "potential_real"
    /\ call.args = <<2 * x, 2 * y, 2 * z>>
    /\ x >= 0 /\ x < pre.nx /\ y >= 0 /\ y < pre.ny /\ z >= 0 /\ z < pre.nz

\* C8: at every in-bounds integer coordinate of a planar 2D, planar 3D or
\* cylindrical array, potential_real(x, y, z) is exactly potential(x, y,
\* z), whatever the neighbouring points hold.
C8_ExactAtGridPoints ==
    \A c \in GridOf(pre) :
        AtGridPoint(c[1], c[2], c[3]) =>
            /\ call.outcome = "ok"
            /\ call.ret = 8 * ReadPotential(pre, c)

\* C8 witness: potential_real at the last point of a row, an electrode
\* whose neighbour holds another potential
C8_Witness ==
    /\ AtGridPoint(2, 1, 0)
    /\ ReadElectrode(pre, <<2, 1, 0>>) = 1
    /\ ReadPotential(pre, <<1, 1, 0>>) # ReadPotential(pre, <<2, 1, 0>>)

-----------------------------------------------------------------------------
(* SpecCodec: arrays holding values are saved to a path, and the file is   *)
(* loaded into a new instance with PA(file = path).                        *)

CodecCtorArgs ==
    {[NoArgs EXCEPT !.ng = ng, !.field_type = ft, !.fast_adjustable = fa,
                    !.dy_mm = dy, !.max_voltage = Some(10)] :
        ng \in {None, Some(0), Some(1), Some(90000), Some(90001)},
        ft \in {None, Some("magnetic")}, fa \in {None, Some(1)},
        dy \in {None, Some(2 * DefaultDxMm)}}
    \cup {[NoArgs EXCEPT !.mode = mo, !.symmetry = sy, !.mirror = mi, !.nz = nz] :
            mo \in {None, Some(-2)}, sy \in {None, Some("cylindrical")},
            mi \in {None, Some(<<"x">>), Some(<<"x", "y">>), Some(<<"z">>)},
            nz \in {None, Some(2)}}
    \cup {[NoArgs EXCEPT !.mirror_x = Some(1)],
          [NoArgs EXCEPT !.mirror_y = Some(1), !.mirror_z = Some(0)]}

InitCodec ==
    /\ pa \in {Filled(a, v) : a \in Built(CodecCtorArgs), v \in Patterns}
    /\ pre = pa
    /\ call = NoCall
    /\ ncalls = 0
    /\ files = NoFiles
    /\ fresh = None
    /\ scan = None

CallSave ==
    \E path \in Paths :
        LET r == save(pa, files, path)
        IN  /\ Did("save", <<path>>, r)
            /\ files' = r.fs
            /\ UNCHANGED <<fresh, scan>>

\* other = PA(file = path): the array itself is not touched
NewFromFile ==
    \E path \in Paths :
        LET r == PA_init(files, [NoArgs EXCEPT !.file = Some(path)])
        IN  /\ Did("PA", <<path>>, [r EXCEPT !.pa = pa])
            /\ fresh' = IF r.outcome = "ok" THEN Some(r.pa) ELSE None
            /\ files' = r.fs
            /\ UNCHANGED scan

NextCodec ==
    \/ CallSave
    \/ NewFromFile

SpecCodec == InitCodec /\ [][NextCodec]_vars

\* a file was loaded into a new instance
Loaded == call.op = "PA" /\ call.args # <<>> /\ call.outcome = "ok"

\* the array as save wrote it to the file that was loaded
Saved == The(files.writer[call.args[1]])

\* the fields that every file carries
SameStoredFields(A, B) ==
    /\ mode_get(B) = mode_get(A)
    /\ B.symmetry = A.symmetry
    /\ B.max_voltage = A.max_voltage
    /\ B.nx = A.nx /\ B.ny = A.ny /\ B.nz = A.nz
    /\ B.mirror_x = A.mirror_x /\ B.mirror_y = A.mirror_y /\ B.mirror_z = A.mirror_z
    /\ B.field_type = A.field_type
    /\ B.dx_mm = A.dx_mm /\ B.dy_mm = A.dy_mm /\ B.dz_mm = A.dz_mm
    /\ B.points = A.points

-----------------------------------------------------------------------------
(* SpecFiles: load and save on an existing instance holding data, with a   *)
(* disk on which one path holds a complete file, a file with another mode, *)
(* a file cut in the header or in the point data, or nothing, and on which *)
(* the other path may not be opened for writing.                           *)

FileCtorArgs ==
    {[NoArgs EXCEPT !.max_voltage = Some(10)],
     [NoArgs EXCEPT !.max_voltage = Some(10), !.mirror_x = Some(1)]}

\* the arrays whose files are on the disk: 4 x 3, the second with a spacing
OnDiskArgs ==
    {[NoArgs EXCEPT !.nx = Some(4), !.max_voltage = Some(20)],
     [NoArgs EXCEPT !.nx = Some(4), !.dy_mm = Some(2 * DefaultDxMm)]}

InPath == <<"a", ".", "p", "a", "#">>

\* the file save writes for an array
FileOf(A) == The(save(A, NoFiles, InPath).fs.data[InPath])

\* a file cut after k header fields, or after k point values
CutHeader(f, k) == [f EXCEPT !.hdr = SubSeq(@, 1, k), !.pts = <<>>]
CutPoints(f, k) == [f EXCEPT !.pts = SubSeq(@, 1, k)]

HeaderCuts == {0, 1, 4, 7}
PointCuts == {0, 5, 8}
OtherModes == {0, -3}

DiskFiles ==
    LET whole == {FileOf(Filled(A, v)) : A \in Built(OnDiskArgs), v \in Patterns}
    IN  whole
        \cup {CutHeader(f, k) : f \in whole, k \in HeaderCuts}
        \cup {CutPoints(f, k) : f \in whole, k \in PointCuts}
        \cup {[f EXCEPT !.hdr[1] = m] : f \in whole, m \in OtherModes}

Disks ==
    {[NoFiles EXCEPT !.data[InPath] = d, !.writable = w] :
        d \in {None} \cup {Some(f) : f \in DiskFiles},
        w \in {Paths, {InPath}}}

\* the arrays given to pasharp: one of the instance's size, one wider
Paired ==
    {Filled(A, v) :
        A \in Built({[NoArgs EXCEPT !.max_voltage = Some(10)],
                     [NoArgs EXCEPT !.max_voltage = Some(10), !.nx = Some(4)]}),
        v \in Patterns}

InitFiles ==
    /\ pa \in {Filled(a, v) : a \in Built(FileCtorArgs), v \in Patterns}
    /\ pre = pa
    /\ call = NoCall
    /\ ncalls = 0
    /\ files \in Disks
    /\ fresh = None
    /\ scan = None

CallLoad ==
    \E path \in Paths :
        LET r == load(pa, files, path)
        IN  /\ Did("load", <<path>>, r)
            /\ files' = r.fs
            /\ UNCHANGED <<fresh, scan>>

CallPasharp ==
    \E other \in Paired :
        /\ Did("pasharp", <<other>>, PA_pasharp(pa, Some(other)))
        /\ UNCHANGED <<files, fresh, scan>>

NextFiles ==
    \/ CallLoad
    \/ CallSave
    \/ CallPasharp

SpecFiles == InitFiles /\ [][NextFiles]_vars

\* C14: if load(path) on an existing instance fails for any reason, every
\* header field and every stored point of the instance is as before the
\* call.
C14_FailedLoadKeepsState ==
    (call.op = "load" /\ call.outcome # "ok") => pa = pre

\* a load that failed, or a save to a path that cannot be opened
IoFailure ==
    \/ call.op = "load" /\ call.outcome # "ok"
    \/ call.op = "save" /\ call.args[1] \notin files.writable
         /\ call.outcome # "TypeError"

\* C15: load on a file that is missing, has another mode or is cut
\* anywhere, and save to a path that cannot be opened, fail with PAError
\* and with no other exception kind.
C15_OneErrorKind ==
    IoFailure => call.outcome = "PAError"

\* C16: on every exit path of load and of save, successful or failing, the
\* file handle the call opened has been closed.
C16_HandleClosed ==
    call.op \in {"load", "save"} => call.args[1] \notin files.open

-----------------------------------------------------------------------------
(* SpecTrailer: a raw array is paired with an array of its size, which is  *)
(* then saved.  The raw arrays hold, at three of their nine points, every  *)
(* combination of: nothing, a non-electrode potential, and electrodes at   *)
(* 1, 1.5, 30, 31, 0 and -5 volts (max_voltage 10 volts); or have          *)
(* max_voltage 0.  Values are in halves of a volt.                         *)

RawMaxVoltage == 10 * PerVolt

\* stored values: 0 and 3 volts unflagged; 1, 1.5, 30, 31, 0 and -5 volts
\* flagged
RawStored ==
    {0, 3 * PerVolt} \cup
    {2 * RawMaxVoltage + v : v \in {2, 3, 30 * PerVolt, 31 * PerVolt, 0, -5 * PerVolt}}

\* stored values on a raw array with max_voltage 0: 0, 1 volt, 1.5 volts
RawStoredUnscaled == {0, 2, 3}

\* the three points that get a value (1-based list positions)
RawPattern(a, b, c) ==
    [n \in 1 .. 18 |-> IF n = 2 THEN a ELSE IF n = 5 THEN b ELSE IF n = 6 THEN c ELSE 0]

RawArrays ==
    {Filled(PA_init(NoFiles, [NoArgs EXCEPT !.max_voltage = Some(RawMaxVoltage)]).pa,
            RawPattern(a, b, c)) : a \in RawStored, b \in RawStored, c \in RawStored}
    \cup
    {Filled(PA_init(NoFiles, [NoArgs EXCEPT !.max_voltage = Some(0)]).pa,
            RawPattern(a, b, c)) :
        a \in RawStoredUnscaled, b \in RawStoredUnscaled, c \in RawStoredUnscaled}

InitTrailer ==
    /\ pa \in {Filled(a, v) :
                a \in Built({[NoArgs EXCEPT !.max_voltage = Some(RawMaxVoltage)]}),
                v \in Patterns}
    /\ pre = pa
    /\ call = NoCall
    /\ ncalls = 0
    /\ files = NoFiles
    /\ fresh = None
    /\ scan = None

\* pa.pasharp(other), once
PairWithRaw ==
    \E other \in RawArrays :
        /\ pa.pasharp = None
        /\ Did("pasharp", <<other>>, PA_pasharp(pa, Some(other)))
        /\ UNCHANGED <<files, fresh, scan>>

NextTrailer ==
    \/ PairWithRaw
    \/ CallSave

SpecTrailer == InitTrailer /\ [][NextTrailer]_vars

\* a save that wrote the statistics of a paired raw array
TrailerWritten ==
    /\ call.op = "save"
    /\ call.outcome = "ok"
    /\ pa.pasharp # None

\* the written first-index entry of group g, and the written count
Entry(g) == The(files.data[call.args[1]]).trl[3 + g]
Count == The(files.data[call.args[1]]).trl[1]

\* smallest flat index (z * ny + y) * nx + x of a set of points of the raw
\* array, or -1
FirstFlat(wanted) ==
    LET sharp == The(pa.pasharp)
        found == {(c[3] * sharp.ny + c[2]) * sharp.nx + c[1] : c \in wanted}
    IN  IF found = {} THEN -1
        ELSE CHOOSE n \in found : \A m \in found : n <= m

\* the raw array's point c is an electrode at exactly g volts
AtGroup(g, c) ==
    /\ ReadElectrode(The(pa.pasharp), c) = 1
    /\ ReadPotential(The(pa.pasharp), c) = g * PerVolt

\* C18: when save runs with a paired raw array of equal dimensions, for
\* each group g in 1..30 the written first-index entry is the smallest
\* flat index of a raw-array electrode point whose decoded potential is
\* exactly the integer g, or -1 if there is none, and the written count is
\* the number of the 31 entries that are not -1.
C18_Trailer ==
    TrailerWritten =>
        /\ Len(The(files.data[call.args[1]]).trl) = 34
        /\ \A g \in 1 .. 30 :
              Entry(g) = FirstFlat({c \in GridOf(The(pa.pasharp)) : AtGroup(g, c)})
        /\ Count = Cardinality({g \in 0 .. 30 : Entry(g) # -1})

\* C18 witness: the raw array holds an electrode at 1.5 volts before two
\* electrodes at 1 volt
C18_Witness ==
    /\ TrailerWritten
    /\ The(pa.pasharp).points[2] = 2 * RawMaxVoltage + 3
    /\ The(pa.pasharp).points[5] = 2 * RawMaxVoltage + 2
    /\ The(pa.pasharp).points[6] = 2 * RawMaxVoltage + 2
    /\ Entry(1) = 4
    /\ Count = 2

\* C19: every point of the paired raw array that is an electrode according
\* to electrode(x, y, z) and whose decoded potential is non-integer or
\* outside [1, 30], zero and negative potentials included, is treated as
\* group 0: entry 0 is the smallest flat index of such a point, and -1
\* only if there is none.
C19_GroupZero ==
    TrailerWritten =>
        Entry(0) = FirstFlat({c \in GridOf(The(pa.pasharp)) :
                                /\ ReadElectrode(The(pa.pasharp), c) = 1
                                /\ \A g \in 1 .. 30 : ~AtGroup(g, c)})

-----------------------------------------------------------------------------
(* SpecPacking: arrays with every combination of mirror flags and field    *)
(* type and with ng around the ends of the encodable range and of the      *)
(* 17-bit field are saved and loaded into a new instance.                  *)

NgValues ==
    {0, 1, 2, 15, 16, 100, 4095, 65535, 65536, 89999, 90000, 90001,
     131071, 131072, 1440000}

PackCtorArgs ==
    {[NoArgs EXCEPT !.nz = Some(2), !.ng = Some(ng), !.field_type = ft,
                    !.mirror = Some(m)] :
        ng \in NgValues, ft \in {None, Some("magnetic")},
        m \in {<<>>, <<"x">>, <<"y">>, <<"z">>, <<"x", "y">>, <<"x", "z">>,
               <<"y", "z">>, <<"x", "y", "z">>}}

InitPacking ==
    /\ pa \in Built(PackCtorArgs)
    /\ pre = pa
    /\ call = NoCall
    /\ ncalls = 0
    /\ files = NoFiles
    /\ fresh = None
    /\ scan = None

NextPacking ==
    \/ CallSave
    \/ NewFromFile

SpecPacking == InitPacking /\ [][NextPacking]_vars

\* the raw_mirror word of the file a successful save wrote
WrittenMirror == The(files.data[call.args[1]]).hdr[7]

\* bits lo .. hi of a word
Bits(word, lo, hi) == (word \div 2 ^ lo) % 2 ^ (hi - lo + 1)

\* C20: the value written in bits 4-20 of raw_mirror is ng when ng is an
\* integer in [1, 90000] and 0 otherwise; the mirror_x, mirror_y, mirror_z
\* and field_type bits (bits 0-3) and the ng decoded from the word are the
\* values that were encoded, and nothing is written above bit 20.
C20_NgPacking ==
    /\ (call.op = "save" /\ call.outcome = "ok") =>
          /\ Bits(WrittenMirror, 4, 20)
                = (IF pre.ng >= 1 /\ pre.ng <= 90000 THEN pre.ng ELSE 0)
          /\ WrittenMirror < 2 ^ 21
          /\ Bits(WrittenMirror, 0, 0) = The(pre.mirror_x)
          /\ Bits(WrittenMirror, 1, 1) = The(pre.mirror_y)
          /\ Bits(WrittenMirror, 2, 2) = The(pre.mirror_z)
          /\ Bits(WrittenMirror, 3, 3) = Bool(pre.field_type = "magnetic")
    /\ Loaded =>
          /\ The(fresh).mirror_x = Saved.mirror_x
          /\ The(fresh).mirror_y = Saved.mirror_y
          /\ The(fresh).mirror_z = Saved.mirror_z
          /\ The(fresh).field_type = Saved.field_type
          /\ The(fresh).ng
                = (IF Saved.ng >= 1 /\ Saved.ng <= 90000 THEN Saved.ng ELSE 0)

\* C20 witness: a magnetic array mirrored in x, y and z with ng = 90000 was
\* saved and loaded back
C20_Witness ==
    /\ Loaded
    /\ WrittenMirror = 90000 * 16 + 15
    /\ The(fresh).ng = 90000
    /\ The(fresh).field_type = "magnetic"
    /\ The(fresh).mirror_x = Some(1) /\ The(fresh).mirror_z = Some(1)

-----------------------------------------------------------------------------
(* SpecMode: the mode and spacing setters, the mode getter and save on     *)
(* arrays of nominal mode -1 and -2.                                       *)

ModeCtorArgs ==
    {NoArgs, [NoArgs EXCEPT !.mode = Some(-2)],
     [NoArgs EXCEPT !.dz_mm = Some(3 * DefaultDxMm)]}

Modes == {None, Some(-1), Some(-2), Some(0)}
Spacings == {None, Some(DefaultDxMm), Some(2 * DefaultDxMm), Some(0)}

InitMode ==
    /\ pa \in Built(ModeCtorArgs)
    /\ pre = pa
    /\ call = NoCall
    /\ ncalls = 0
    /\ files = NoFiles
    /\ fresh = None
    /\ scan = None

CallMode ==
    \E m \in Modes :
        /\ Did("mode", <<m>>, PA_mode(pa, m))
        /\ UNCHANGED <<files, fresh, scan>>

CallDx ==
    \E v \in Spacings :
        /\ Did("dx_mm", <<v>>, PA_dx_mm(pa, v))
        /\ UNCHANGED <<files, fresh, scan>>

CallDy ==
    \E v \in Spacings :
        /\ Did("dy_mm", <<v>>, PA_dy_mm(pa, v))
        /\ UNCHANGED <<files, fresh, scan>>

CallDz ==
    \E v \in Spacings :
        /\ Did("dz_mm", <<v>>, PA_dz_mm(pa, v))
        /\ UNCHANGED <<files, fresh, scan>>

NextMode ==
    \/ CallMode
    \/ CallDx
    \/ CallDy
    \/ CallDz
    \/ CallSave

SpecMode == InitMode /\ [][NextMode]_vars

\* every spacing of the array is 1 mm
UnitSpacing(self) ==
    self.dx_mm = DefaultDxMm /\ self.dy_mm = DefaultDxMm /\ self.dz_mm = DefaultDxMm

\* the mode the claim expects the getter to report
ExpectedMode(self) ==
    IF self.mode = -2 \/ (self.mode = -1 /\ ~UnitSpacing(self)) THEN -2 ELSE -1

\* C21: the mode getter returns -2 exactly when the stored mode is -2, or
\* is -1 with one of dx_mm, dy_mm, dz_mm different from 1, and -1
\* otherwise; a spacing changed away from 1 and back to 1 on a nominal -1
\* array takes the reported mode to -2 and back to -1; save writes the
\* three spacings exactly when the reported mode is <= -2.
C21_ModeElevation ==
    /\ PA_mode(pa, None).ret = ExpectedMode(pa)
    /\ (call.op = "mode" /\ call.args[1] = None) => call.ret = ExpectedMode(pre)
    /\ (call.op \in {"dx_mm", "dy_mm", "dz_mm"} /\ call.outcome = "ok"
            /\ call.args[1] # None /\ pa.mode = -1) =>
          /\ (UnitSpacing(pre) /\ The(call.args[1]) # DefaultDxMm)
                => PA_mode(pre, None).ret = -1 /\ PA_mode(pa, None).ret = -2
          /\ (~UnitSpacing(pre) /\ UnitSpacing(pa))
                => PA_mode(pre, None).ret = -2 /\ PA_mode(pa, None).ret = -1
    /\ (call.op = "save" /\ call.outcome = "ok") =>
          LET h == The(files.data[call.args[1]]).hdr
          IN  /\ h[1] = PA_mode(pre, None).ret
              /\ IF PA_mode(pre, None).ret <= -2
                 THEN Len(h) = 10
                      /\ <<h[8], h[9], h[10]>> = <<pre.dx_mm, pre.dy_mm, pre.dz_mm>>
                 ELSE Len(h) = 7

\* C21 witness: on a nominal -1 array a spacing was set away from 1 and
\* then back to 1
C21_Witness ==
    /\ call.op = "dy_mm" /\ call.outcome = "ok"
    /\ pa.mode = -1 /\ pre.mode = -1
    /\ ~UnitSpacing(pre) /\ UnitSpacing(pa)
    /\ PA_mode(pre, None).ret = -2
    /\ PA_mode(pa, None).ret = -1
    /\ ncalls = 2

-----------------------------------------------------------------------------
(* SpecSize: check_size, check and the size setter called with triples of  *)
(* dimensions on a default (planar, unmirrored) array.  The triples reach  *)
(* both ends of every range and both sides of the limit on the product:    *)
(* 90000 * 2222 = 199 980 000 and 90000 * 2223 = 200 070 000.  The size    *)
(* setter allocates nx*ny*nz values, so the triples it is given are the    *)
(* rejected ones and the accepted ones of a few points.                    *)

SizeNx == {2, 3, 90000, 90001}
SizeNy == {2, 3, 2222, 2223}
SizeNz == {0, 1, 2, 3, 90001}
Triples == {<<Some(nx), Some(ny), Some(nz)>> :
                nx \in SizeNx, ny \in SizeNy, nz \in SizeNz}
Resizes == {t \in Triples : The(t[1]) \in {2, 3, 90001} /\ The(t[2]) \in {2, 3}}
               \cup {<<Some(90000), Some(2223), Some(1)>>}

\* pa.check_size(nx, ny, nz) as a call
CheckSizeCall(self, nx, ny, nz) ==
    LET c == check_size(self, nx, ny, nz)
        s == [self EXCEPT !.error = c.error]
    IN  IF c.exc # "ok" THEN Raise(s, c.exc) ELSE Return(s, Bool(c.ok))

InitSize ==
    /\ pa \in Built({NoArgs})
    /\ pre = pa
    /\ call = NoCall
    /\ ncalls = 0
    /\ files = NoFiles
    /\ fresh = None
    /\ scan = None

CallCheckSize ==
    \E t \in Triples :
        /\ Did("check_size", t, CheckSizeCall(pa, t[1], t[2], t[3]))
        /\ UNCHANGED <<files, fresh, scan>>

CallCheckTriple ==
    \E t \in Triples :
        /\ Did("check", t,
               CheckCall(pa, [NoArgs EXCEPT !.nx = t[1], !.ny = t[2], !.nz = t[3]]))
        /\ UNCHANGED <<files, fresh, scan>>

CallResize ==
    \E t \in Resizes :
        /\ Did("size", t, size(pa, t[1], t[2], t[3]))
        /\ UNCHANGED <<files, fresh, scan>>

NextSize == CallCheckSize \/ CallCheckTriple \/ CallResize

SpecSize == InitSize /\ [][NextSize]_vars

\* the triple of the last call was accepted: check and check_size returned
\* true, size did not raise
Accepted ==
    /\ call.outcome = "ok"
    /\ call.op \in {"check", "check_size"} => call.ret = 1

GivenNx == The(call.args[1])
GivenNy == The(call.args[2])
GivenNz == The(call.args[3])

-----------------------------------------------------------------------------
(* SpecReal: inside_real and potential_real on the arrays of SpecInterp,   *)
(* at the same real coordinates (in half grid units).                      *)

CallInsideReal ==
    \E x2 \in HalfX, y2 \in HalfY, z2 \in HalfZ :
        /\ pa.symmetry = "cylindrical" => IsSquare(y2 * y2 + z2 * z2)
        /\ Did("inside_real", <<x2, y2, z2>>,
               Return(pa, Bool(inside_real(pa, x2, y2, z2))))
        /\ UNCHANGED <<files, fresh, scan>>

NextReal == CallInsideReal \/ CallPotentialReal

SpecReal == InitInterp /\ [][NextReal]_vars

\* the test of one axis: |c| <= dim - 1, and c >= 0 or the axis mirrored
AxisInside(c2, dim, mirrored) ==
    /\ Abs(c2) <= 2 * (dim - 1)
    /\ c2 >= 0 \/ Truthy(mirrored)

PlanarInsideReal == call.op = "inside_real" /\ pre.symmetry = "planar"

\* C24 as stated: on a planar array inside_real(x,y,z) is true exactly
\* when each of the three axes passes its test, the z axis as well, also
\* when nz == 1.
C24_Original ==
    PlanarInsideReal =>
        (call.ret = 1 <=> /\ AxisInside(call.args[1], pre.nx, pre.mirror_x)
                          /\ AxisInside(call.args[2], pre.ny, pre.mirror_y)
                          /\ AxisInside(call.args[3], pre.nz, pre.mirror_z))

\* C24: on a planar array inside_real(x,y,z) is true exactly when the x
\* and y axes each pass the test (|c| <= dim-1, and c >= 0 or the axis is
\* mirrored) and either nz == 1, where z is not tested at all, or the z
\* axis passes the same test.
C24_InsideRealPlanar ==
    PlanarInsideReal =>
        /\ call.outcome = "ok"
        /\ call.ret = 1 <=> /\ AxisInside(call.args[1], pre.nx, pre.mirror_x)
                            /\ AxisInside(call.args[2], pre.ny, pre.mirror_y)
                            /\ \/ pre.nz = 1
                               \/ AxisInside(call.args[3], pre.nz, pre.mirror_z)

\* C24 witness: on a planar array of depth 1 inside_real was true at
\* z = 1.5, beyond the only plane
C24_Witness ==
    /\ PlanarInsideReal
    /\ pre.nz = 1
    /\ call.args[3] = 3
    /\ call.ret = 1

\* potential_real was called at a coordinate that satisfies inside_real
InsideCall ==
    /\ call.op = "potential_real"
    /\ inside_real(pre, call.args[1], call.args[2], call.args[3])

\* the corners of the last potential_real call
CallCorners == RealCorners(pre, call.args[1], call.args[2], call.args[3])

\* C25: for every real coordinate that satisfies inside_real (planar 2D,
\* planar 3D and cylindrical, with or without mirroring), potential_real
\* reads only grid points that satisfy inside and never raises; a corner
\* with index dim on some axis occurs only when the fractional weight on
\* that axis is 0, and then it is not read and contributes 0.
C25_EdgeRule ==
    InsideCall =>
        /\ call.outcome = "ok"
        /\ \A k \in 1 .. Len(CallCorners) :
              LET c == CallCorners[k]
              IN  /\ c.used => inside(pre, c.x, c.y, c.z)
                  /\ ~inside(pre, c.x, c.y, c.z) => ~c.used /\ c.w = 0
                  /\ c.x = pre.nx => Abs(call.args[1]) % 2 = 0
                  /\ (c.z = pre.nz /\ pre.nz # 1) => Abs(call.args[3]) % 2 = 0
                  /\ (c.y = pre.ny /\ pre.symmetry = "planar")
                        => Abs(call.args[2]) % 2 = 0

\* C25 witness: potential_real on the last plane, last row and last column
\* of a planar 3D array, where three axes have a corner with index dim
C25_Witness ==
    /\ InsideCall
    /\ call.outcome = "ok"
    /\ pre.nz = 2
    /\ call.args = <<2 * (pre.nx - 1), 2 * (pre.ny - 1), 2 * (pre.nz - 1)>>
    /\ \E k \in 1 .. Len(CallCorners) :
          /\ CallCorners[k].x = pre.nx
          /\ CallCorners[k].y = pre.ny
          /\ CallCorners[k].z = pre.nz
          /\ ~CallCorners[k].used

-----------------------------------------------------------------------------
(* SpecScan: the field setter driven over a freshly zeroed 3 x 3 planar    *)
(* array of depth 1, once per point, with a vector chosen anew at every    *)
(* point; the scan runs x outer and y inner, or y outer and x inner.       *)
(* Values are in sixteenths, as in SpecField: on a 3 x 3 grid the          *)
(* divisions by 2 and 4 of _set_field stay exact for multiples of 16.      *)
(* max_voltage is 0, 48 (3 V) or the default, so the potentials written    *)
(* exceed it, fall below its negative, or stay within it.                  *)

ScanCtorArgs ==
    {[NoArgs EXCEPT !.max_voltage = mv] : mv \in {None, Some(0), Some(48)}}

ScanVectors == {<<-64, -32>>, <<32, 64>>, <<0, 0>>}

InitScan ==
    /\ pa \in Built(ScanCtorArgs)
    /\ pre = pa
    /\ call = NoCall
    /\ ncalls = 0
    /\ files = NoFiles
    /\ fresh = None
    /\ \E xfast \in BOOLEAN :
          scan = Some([next |-> 0, xfast |-> xfast, exact |-> TRUE])

\* the next pa.field(x, y, 0, ex, ey, 0) of the scan
ScanPoint ==
    /\ scan # None
    /\ The(scan).next < pa.nx * pa.ny
    /\ \E v \in ScanVectors :
          LET sc == The(scan)
              x == IF sc.xfast THEN sc.next % pa.nx ELSE sc.next \div pa.ny
              y == IF sc.xfast THEN sc.next \div pa.nx ELSE sc.next % pa.ny
              r == field(pa, x, y, 0, Some(v[1]), Some(v[2]), Some(0))
          IN  /\ pa' = r.pa
              /\ pre' = pa
              /\ call' = [op |-> "field", args |-> <<x, y, 0, v[1], v[2], 0>>,
                          outcome |-> r.outcome, ret |-> r.ret]
              /\ scan' = Some([sc EXCEPT
                                 !.next = IF r.outcome = "ok" THEN @ + 1 ELSE @,
                                 !.exact = @ /\ r.exact])
    /\ UNCHANGED <<ncalls, files, fresh>>

NextScan == ScanPoint

SpecScan == InitScan /\ [][NextScan]_vars

\* C26: starting from a fully zeroed array and calling the field setter
\* once per point in lexicographic order with arbitrary field vectors
\* (also ones that push potentials above max_voltage), after every call
\* every point of the array is a non-electrode, and the origin (0,0,0) has
\* potential exactly 0 once it has been processed and keeps it until the
\* scan ends.
C26_NoElectrodes ==
    call.op = "field" =>
        /\ call.outcome = "ok"
        /\ The(scan).exact
        /\ \A c \in GridOf(pa) : ReadElectrode(pa, c) = 0
        /\ The(scan).next >= 1 => ReadPotential(pa, <<0, 0, 0>>) = 0

\* C26 witness: a scan is complete that raised max_voltage from 48 and
\* left potentials above 48, below -48 and 0 at the origin
C26_Witness ==
    /\ call.op = "field"
    /\ The(scan).next = pa.nx * pa.ny
    /\ pa.max_voltage > 48 /\ pa.max_voltage < DefaultMaxVoltage
    /\ \E c \in GridOf(pa) : ReadPotential(pa, c) > 48
    /\ \E c \in GridOf(pa) : ReadPotential(pa, c) < -48
    /\ ReadPotential(pa, <<0, 0, 0>>) = 0
    /\ \E c \in GridOf(pa) : ReadPotential(pa, c) % 16 # 0

-----------------------------------------------------------------------------
(* SpecStore: the calls that allocate, clear or write the point values, on *)
(* a default array and a disk whose file is complete, cut in the point     *)
(* data, or carries a dimension that is zero or negative.                  *)

StoreFiles ==
    LET whole == FileOf(Filled(PA_init(NoFiles, [NoArgs EXCEPT !.nx = Some(4)]).pa,
                               [n \in 1 .. 18 |-> 7 * n - 20]))
    IN  {whole, CutPoints(whole, 5),
         [whole EXCEPT !.hdr[4] = 0], [whole EXCEPT !.hdr[4] = -4],
         [whole EXCEPT !.hdr[5] = -3], [whole EXCEPT !.hdr[6] = 0]}

InitStore ==
    /\ pa \in Built({NoArgs})
    /\ pre = pa
    /\ call = NoCall
    /\ ncalls = 0
    /\ files \in {[NoFiles EXCEPT !.data[InPath] = Some(f)] : f \in StoreFiles}
    /\ fresh = None
    /\ scan = None

CallClearPoints ==
    /\ Did("clear_points", <<>>, clear_points(pa))
    /\ UNCHANGED <<files, fresh, scan>>

NextStore ==
    \/ CallLoad
    \/ CallSet
    \/ CallSize
    \/ CallNx
    \/ CallNy
    \/ CallNz
    \/ CallPointWrite
    \/ CallClearPoints

SpecStore == InitStore /\ [][NextStore]_vars

\* C30: in every state reachable after construction by any sequence of
\* public calls (successful or failing: set, size, the dimension setters,
\* clear_points, the point mutators, load), the number of stored point
\* values equals nx*ny*nz, so the index (z*ny+y)*nx+x of every coordinate
\* accepted by inside addresses an existing element and distinct
\* coordinates address distinct elements.
C30_StoreLength ==
    /\ Len(pa.points) = pa.nx * pa.ny * pa.nz
    /\ \A c \in GridOf(pa) :
          Pos(pa, c[1], c[2], c[3]) + 1 \in 1 .. Len(pa.points)
    /\ \A c \in GridOf(pa), d \in GridOf(pa) :
          c # d => Pos(pa, c[1], c[2], c[3]) # Pos(pa, d[1], d[2], d[3])

====
